---- MODULE Spec2Model ----
(***************************************************************************)
(* Model of the governance deployment script (src/hardhat.config.ts,       *)
(* deployGovernance and the functions it calls) and of the recipient       *)
(* batch loop setClaimRecipients with its gas-price guard.                 *)
(*                                                                         *)
(* The script is one sequential async process.  Every await of the source  *)
(* is one instruction of Program; the three chains mine the transactions   *)
(* the process has submitted, in submission order per chain, concurrently  *)
(* with the process.  The process can be killed from outside at any point  *)
(* and the operator can run the script again.                              *)
(*                                                                         *)
(* Two functions are also specified on their own, applied to any input:    *)
(* mapPointsToAmounts (SpecMap) and checkEnvVars of                        *)
(* src/scripts/providerSetup.ts (SpecEnv).                                 *)
(***************************************************************************)
EXTENDS Integers, Sequences, FiniteSets, TLC

VARIABLES
  status,             \* "running", "done", "failed" or "killed": state of the node process
  run,                \* number of the current execution of the script (1 = first)
  pc,                 \* index in Program of the instruction deployGovernance is at
  deployedContracts,  \* the module-level map of hardhat.config.ts:65 (key -> address)
  disk,               \* deployedContracts.json: [exists, content, complete]
  pending,            \* per chain, the submitted and not yet mined transactions (FIFO)
  msgStatus,          \* status returned by waitForStatus for the two retryable messages
  bpc,                \* position inside setClaimRecipients ("none" outside of it)
  i,                  \* loop variable of setClaimRecipients
  gasPriceBestGuess,  \* local of setClaimRecipients: the last gas-price sample
  nRecipients,        \* number of accounts in the recipients file
  startBatch,         \* GovernanceConstants.L2_NUM_OF_RECIPIENT_BATCHES_ALREADY_SET
  distributor,        \* the TokenDistributor setClaimRecipients was called with
  registered,         \* per distributor, the setRecipients batches mined so far
  tokenRecipients,    \* local of setClaimRecipients: the accounts, in file order
  tokenAmounts,       \* local of setClaimRecipients: the amounts, index-aligned
  error,              \* the error that ended the run, [kind, detail] (kind "" while none)
  samples,            \* history: the gas-price samples of the current batch (the first one and
                      \*          the last two), until its 1 second sleep is over
  polls,              \* history: 30 second sleeps done for the current batch
  submitted,          \* history: the batches submitted by the current invocation
  delays,             \* history: 1 second sleeps done for the current batch
  resumedOk,          \* history: every invocation so far started at the first unconfirmed batch
  started,            \* history: the functions deployGovernance has called in this execution,
                      \*          as their positions in StepOrder
  badAccount,         \* position in the recipients file of the entry with invalid points (0: none)
  unset,              \* process.env: the variables that are not set
  localFlag,          \* process.env: the value of DEPLOY_TO_LOCAL_ENVIRONMENT when it is set
  novaFlag,           \* process.env: the value of DEPLOY_GOVERNANCE_TO_NOVA when it is set
  keys,               \* process.env: the values of ETH_KEY, ARB_KEY and NOVA_KEY when they are set
  missingFiles,       \* the paths at which fs.existsSync finds no file
  envChecked,         \* outcome of checkEnvVars: "none" before the call, "ok", or the error message
  tokenRecipientsByPoints,  \* argument of mapPointsToAmounts: the parsed recipients file
  mapped,             \* what mapPointsToAmounts returned or threw (NotMapped before the call)
  chainId,            \* per chain, the chain id its provider reported (0 before it is asked)
  deployers,          \* per chain, the signer getDeployersAndConfig returned ("none" before)
  logged,             \* the record getDeployersAndConfig printed with console.log (NoLog: none)
  cache,              \* the DeployProgressCache held by a process that uses the progress file
  spc,                \* where that process is: "load", "ready", or "write" (file opened)
  written,            \* per key, the last value a completed updateDeployedContracts wrote
  l2DeployResult,     \* deployGovernance: the args of the Deployed event of deployStep1
  l1DeployResult,     \* deployGovernance: the args of the Deployed event of deployStep2
  calls               \* history: the addresses this execution passed to deployStep2,
                      \*          deployStep3 and novaUpgradeExecutor.initialize

vars == << status, run, pc, deployedContracts, disk, pending, msgStatus,
           bpc, i, gasPriceBestGuess, nRecipients, startBatch, distributor,
           registered, tokenRecipients, tokenAmounts, error, samples, polls,
           submitted, delays, resumedOk, started, badAccount, unset, localFlag, novaFlag,
           keys, missingFiles,
           envChecked, tokenRecipientsByPoints, mapped, chainId, deployers,
           logged, cache, spc, written, l2DeployResult, l1DeployResult, calls >>

loopVars  == << bpc, i, gasPriceBestGuess, tokenRecipients, tokenAmounts, samples,
               polls, submitted, delays >>
inputVars == << nRecipients, startBatch, badAccount >>
\* the environment and the variables of the functions checked on their own
envState == << unset, localFlag, novaFlag, keys >>
setupVars == << chainId, deployers, logged >>
storeVars == << cache, spc, written >>
flowVars == << l2DeployResult, l1DeployResult, calls >>
offlineVars == << envState, missingFiles, envChecked, tokenRecipientsByPoints, mapped,
                 setupVars, storeVars, flowVars >>
chainVars == << pending, registered >>

-----------------------------------------------------------------------------
(* Bounds of the model *)

MaxRuns == 2          \* executions of the script (or of setClaimRecipients) in one behaviour
MaxFullBatches == 2   \* the recipients file holds at most this many full batches plus a remainder
MaxStartBatch == 3    \* largest value of L2_NUM_OF_RECIPIENT_BATCHES_ALREADY_SET
MaxPolls == 2         \* samples taken inside one gas-guard wait
MaxFileLen == 2       \* accounts in a recipients file given to mapPointsToAmounts alone
MaxMissing == 1       \* variables that are not set in an environment given to checkEnvVars

(* Program constants *)

BATCH_SIZE == 100
GAS_PRICE_UNACCEPTABLE_LIMIT == 120000000
BASE_GAS_PRICE == 100000000

Chains == {"eth", "arb", "nova"}

\* values getGasPrice may return (wei): below base, base, the limit itself, above the limit
GasPrices == {80000000, BASE_GAS_PRICE, GAS_PRICE_UNACCEPTABLE_LIMIT, 130000000, 150000000}

\* sizes of the recipients file: every count of full batches, without and with a remainder
RecipientCounts == {k * BATCH_SIZE + r : k \in 0..MaxFullBatches, r \in {0, 50}}

\* the inputs of the batch loop when the whole script is run: no recipients, or one
\* full batch and a partial one; no batch or one batch marked as already set
SequencerRecipientCounts == {0, BATCH_SIZE + 50}
SequencerStartBatches == {0, 1}

\* L1ToL2MessageStatus values waitForStatus can return
MessageStatuses == {"REDEEMED", "FUNDS_DEPOSITED_ON_L2", "EXPIRED"}

EmptyRecord == [k \in {} |-> 0]
NoFile == [exists |-> FALSE, content |-> EmptyRecord, complete |-> TRUE]

Min(a, b) == IF a < b THEN a ELSE b

-----------------------------------------------------------------------------
(* Instructions: one per await (or per block of synchronous statements)    *)

Instr(o, c, n, ks) == [op |-> o, chain |-> c, name |-> n, keys |-> ks, fn |-> ""]

Deploy(c, n)   == Instr("deploy", c, n, {})          \* await new X__factory(signer).deploy(): submits
Deployed(c, n) == Instr("deployed", c, n, {})        \* await x.deployed(): waits until mined
Send(c, n)     == Instr("send", c, n, {})            \* await contract.method(..): submits
Wait(c, n)     == Instr("wait", c, n, {})            \* await tx.wait(): waits until mined
Read(c, n)     == Instr("read", c, n, {})            \* await of a view call / RPC read
Store(ks)      == Instr("store", "", "", ks)         \* deployedContracts[k] = address
Event(c, n)    == Instr("event", c, n, {})           \* receipt.events.filter(Deployed)[0].args
WaitForStatus(n) == Instr("waitForStatus", "nova", n, {})
CheckRedeemed(n) == Instr("check", "", n, {})
Local(n)       == Instr("local", "", n, {})

In(f, body) == [k \in 1..Len(body) |-> [body[k] EXCEPT !.fn = f]]

-----------------------------------------------------------------------------
(* The functions of hardhat.config.ts, instruction by instruction *)

getDeployers == << Local("getDeployers") >>

deployL1LogicContracts ==
  << Deploy("eth", "l1UpgradeExecutorLogic"),
     Store({"l1UpgradeExecutorLogic"}) >>

deployL2LogicContracts ==
  << Deploy("arb", "l2TimelockLogic"),
     Deploy("arb", "l2GovernorLogic"),
     Deploy("arb", "l2FixedDelegateLogic"),
     Deploy("arb", "l2TokenLogic"),
     Deploy("arb", "l2UpgradeExecutorLogic"),
     Store({"l2TimelockLogic", "l2GovernorLogic", "l2FixedDelegateLogic",
            "l2TokenLogic", "l2UpgradeExecutorLogic"}) >>

deployL1GovernanceFactory ==
  << Deploy("eth", "l1GovernanceFactory"),
     Deployed("eth", "l1GovernanceFactory"),
     Store({"l1GovernanceFactory"}) >>

deployAndInitL1Token ==
  << Deploy("eth", "l1TokenLogic"),
     Deploy("eth", "l1TokenProxy"),
     Deployed("eth", "l1TokenProxy"),
     Store({"l1TokenLogic", "l1TokenProxy"}) >>

deployL2GovernanceFactory ==
  << Deploy("arb", "l2GovernanceFactory"),
     Store({"l2GovernanceFactory"}) >>

deployNovaUpgradeExecutor ==
  << Deploy("nova", "novaProxyAdmin"),
     Deployed("nova", "novaProxyAdmin"),
     Deploy("nova", "novaUpgradeExecutorLogic"),
     Deploy("nova", "novaUpgradeExecutorProxy"),
     Deployed("nova", "novaUpgradeExecutorProxy"),
     Store({"novaProxyAdmin", "novaUpgradeExecutorLogic", "novaUpgradeExecutorProxy"}) >>

deployTokenToNova ==
  << Deploy("nova", "novaTokenLogic"),
     Deploy("nova", "novaTokenProxy"),
     Deployed("nova", "novaTokenProxy"),
     Send("nova", "novaToken.initialize"),
     Store({"novaTokenLogic", "novaTokenProxy"}) >>

L2DeployedEventKeys ==
  {"l2CoreGoverner", "l2CoreTimelock", "l2Executor", "l2ProxyAdmin", "l2Token",
   "l2TreasuryGoverner", "l2ArbTreasury"}

initL2Governance ==
  << Send("arb", "deployStep1"),
     Wait("arb", "deployStep1"),
     Event("arb", "deployStep1"),
     Store(L2DeployedEventKeys) >>

L1DeployedEventKeys == {"l1Executor", "l1ProxyAdmin", "l1Timelock"}

initL1Governance ==
  << Send("eth", "deployStep2"),
     Wait("eth", "deployStep2"),
     Event("eth", "deployStep2"),
     Store(L1DeployedEventKeys) >>

setExecutorRoles ==
  << Send("arb", "deployStep3"),
     Send("nova", "novaUpgradeExecutor.initialize"),
     Send("nova", "novaProxyAdmin.transferOwnership") >>

postDeploymentL1TokenTasks ==
  << Send("eth", "l1TokenProxy.changeAdmin"),
     Wait("eth", "l1TokenProxy.changeAdmin"),
     Send("eth", "l1Token.initialize"),
     Wait("eth", "l1Token.initialize"),
     Read("nova", "getGasPrice"),
     Read("eth", "l1Token.novaGateway"),
     Read("eth", "novaGateway.inbox"),
     Read("eth", "calculateRetryableSubmissionFee(gateway)"),
     Read("eth", "calculateRetryableSubmissionFee(router)"),
     Send("eth", "l1Token.registerTokenOnL2"),
     Wait("eth", "l1Token.registerTokenOnL2"),
     Read("nova", "getL1ToL2Messages"),
     WaitForStatus("setTokenTx"),
     WaitForStatus("setGatewaysTX"),
     CheckRedeemed("setTokenTx"),
     CheckRedeemed("setGatewaysTX") >>

postDeploymentL2TokenTasks ==
  << Send("arb", "l2Token.transferOwnership"),
     Send("arb", "l2Token.transfer(arbTreasury)") >>

\* a step that hands the distributor to the executor before the recipients are set
deployAndInitTokenDistributorOwnershipFirst ==
  << Deploy("arb", "l2TokenDistributor"),
     Deployed("arb", "l2TokenDistributor"),
     Store({"l2TokenDistributor"}),
     Send("arb", "l2Token.transfer(tokenDistributor)"),
     Wait("arb", "l2Token.transfer(tokenDistributor)"),
     Send("arb", "tokenDistributor.transferOwnership"),
     Wait("arb", "tokenDistributor.transferOwnership"),
     Instr("setClaimRecipients", "arb", "setClaimRecipients", {}) >>

deployAndInitTokenDistributor ==
  << Deploy("arb", "l2TokenDistributor"),
     Deployed("arb", "l2TokenDistributor"),
     Store({"l2TokenDistributor"}),
     Send("arb", "l2Token.transfer(tokenDistributor)"),
     Wait("arb", "l2Token.transfer(tokenDistributor)"),
     Instr("setClaimRecipients", "arb", "setClaimRecipients", {}),
     Send("arb", "tokenDistributor.transferOwnership"),
     Wait("arb", "tokenDistributor.transferOwnership") >>

writeAddresses ==
  << Instr("openFile", "", "writeAddresses", {}),
     Instr("writeAddresses", "", "writeAddresses", {}) >>

\* a script that initialises the L1 governance before the L2 governance
deployGovernanceL1InitFirst ==
     In("getDeployers", getDeployers)
  \o In("deployL1LogicContracts", deployL1LogicContracts)
  \o In("deployL2LogicContracts", deployL2LogicContracts)
  \o In("deployL1GovernanceFactory", deployL1GovernanceFactory)
  \o In("deployAndInitL1Token", deployAndInitL1Token)
  \o In("deployL2GovernanceFactory", deployL2GovernanceFactory)
  \o In("deployNovaUpgradeExecutor", deployNovaUpgradeExecutor)
  \o In("deployTokenToNova", deployTokenToNova)
  \o In("initL1Governance", initL1Governance)
  \o In("initL2Governance", initL2Governance)
  \o In("setExecutorRoles", setExecutorRoles)
  \o In("postDeploymentL1TokenTasks", postDeploymentL1TokenTasks)
  \o In("postDeploymentL2TokenTasks", postDeploymentL2TokenTasks)
  \o In("deployAndInitTokenDistributor", deployAndInitTokenDistributor)
  \o In("writeAddresses", writeAddresses)

\* the body of deployGovernance: the calls in the order of lines 107-179
deployGovernance ==
     In("getDeployers", getDeployers)
  \o In("deployL1LogicContracts", deployL1LogicContracts)
  \o In("deployL2LogicContracts", deployL2LogicContracts)
  \o In("deployL1GovernanceFactory", deployL1GovernanceFactory)
  \o In("deployAndInitL1Token", deployAndInitL1Token)
  \o In("deployL2GovernanceFactory", deployL2GovernanceFactory)
  \o In("deployNovaUpgradeExecutor", deployNovaUpgradeExecutor)
  \o In("deployTokenToNova", deployTokenToNova)
  \o In("initL2Governance", initL2Governance)
  \o In("initL1Governance", initL1Governance)
  \o In("setExecutorRoles", setExecutorRoles)
  \o In("postDeploymentL1TokenTasks", postDeploymentL1TokenTasks)
  \o In("postDeploymentL2TokenTasks", postDeploymentL2TokenTasks)
  \o In("deployAndInitTokenDistributor", deployAndInitTokenDistributor)
  \o In("writeAddresses", writeAddresses)

Program == deployGovernance

PcEnd == Len(Program) + 1

\* the functions of the script in call order, numbered as the steps of the deployment
StepOrder ==
  << "deployL1LogicContracts", "deployL2LogicContracts", "deployL1GovernanceFactory",
     "deployAndInitL1Token", "deployL2GovernanceFactory", "deployNovaUpgradeExecutor",
     "deployTokenToNova", "initL2Governance", "initL1Governance", "setExecutorRoles",
     "postDeploymentL1TokenTasks", "postDeploymentL2TokenTasks",
     "deployAndInitTokenDistributor" >>

StepOf(f) == IF \E k \in 1..Len(StepOrder) : StepOrder[k] = f
             THEN CHOOSE k \in 1..Len(StepOrder) : StepOrder[k] = f
             ELSE IF f = "getDeployers" THEN 0 ELSE Len(StepOrder) + 1

\* step the instruction at p belongs to (0 before the first step, 14 after the last)
StepAt(p) == IF p >= PcEnd THEN Len(StepOrder) + 1 ELSE StepOf(Program[p].fn)

\* p is the first instruction of its function
IsStepStart(p) == p < PcEnd /\ (p = 1 \/ Program[p - 1].fn # Program[p].fn)

\* the keys the instructions of step s store
KeysOfStep(s) == UNION {Program[p].keys : p \in {q \in 1..Len(Program) : StepAt(q) = s}}

\* the transaction whose mining creates the contract stored under key k
ProducerOf(k) == IF k \in L2DeployedEventKeys THEN "deployStep1"
                 ELSE IF k \in L1DeployedEventKeys THEN "deployStep2"
                 ELSE k

\* the functions whose results are arguments of the call of f in deployGovernance
DependsOn(f) ==
  CASE f = "deployL2GovernanceFactory" -> {"deployL2LogicContracts"}
    [] f = "deployTokenToNova" -> {"deployNovaUpgradeExecutor", "deployAndInitL1Token"}
    [] f = "initL2Governance" -> {"deployL2GovernanceFactory", "deployAndInitL1Token"}
    [] f = "initL1Governance" ->
         {"deployL1GovernanceFactory", "deployL1LogicContracts", "initL2Governance"}
    [] f = "setExecutorRoles" ->
         {"initL1Governance", "deployL2GovernanceFactory", "deployNovaUpgradeExecutor"}
    [] f = "postDeploymentL1TokenTasks" ->
         {"deployAndInitL1Token", "initL1Governance", "deployTokenToNova"}
    [] f = "postDeploymentL2TokenTasks" -> {"initL2Governance"}
    [] f = "deployAndInitTokenDistributor" -> {"initL2Governance"}
    [] OTHER -> {}

SetClaimRecipientsPc == CHOOSE p \in 1..Len(Program) : Program[p].op = "setClaimRecipients"

-----------------------------------------------------------------------------
(* Recipients file and mapPointsToAmounts (hardhat.config.ts:666-714) *)

\* A JSON value found under "points": a number (kept in tenths, so that 3.5 is 35), a
\* string holding a number, or nothing at all (the key is absent: undefined)
JsNumber(tenths) == [type |-> "number", tenths |-> tenths]
JsString(tenths) == [type |-> "string", tenths |-> tenths]
JsUndefined == [type |-> "undefined", tenths |-> 0]

\* the integer k as a JSON number
Points(k) == JsNumber(10 * k)

\* positions at which a recipients file of n accounts may hold an entry with invalid
\* points: nowhere, at its first account or at its last one
BadAccounts(n) == IF n = 0 THEN {0} ELSE {0, 1, n}

\* files/recipients.json with n accounts: account j has 3 + (j mod 13) points, except
\* the account at position bad, which has 16
RecipientsFile(n, bad) ==
  [j \in 1..n |-> [account |-> j,
                   points |-> IF j = bad THEN Points(16) ELSE Points(3 + (j % 13))]]

\* parseEther("t"): t * 10^18 wei, kept as <<t, 18>> (mantissa, decimal exponent)
parseEther(t) == << t, 18 >>

\* the case labels of the switch of lines 674-709 (compared with ===)
ValidPoints == {Points(k) : k \in 3..15}

\* a table whose case 7 falls through to the amount of case 8
AmountOfPointsFallThrough(points) ==
  CASE points = Points(3) -> parseEther(3000)
    [] points = Points(4) -> parseEther(4500)
    [] points = Points(5) -> parseEther(6000)
    [] points = Points(6) -> parseEther(9000)
    [] points \in {Points(k) : k \in 7..15} -> parseEther(12000)

\* the amount pushed by the case of the switch that matches points
AmountOfPoints(points) ==
  CASE points = Points(3) -> parseEther(3000)
    [] points = Points(4) -> parseEther(4500)
    [] points = Points(5) -> parseEther(6000)
    [] points = Points(6) -> parseEther(9000)
    [] points = Points(7) -> parseEther(10500)
    [] points \in {Points(k) : k \in 8..15} -> parseEther(12000)

\* a switch whose case 3 has no tokenAmounts.push: the account is kept, its amount is not
mapPointsToAmountsCaseWithoutPush(file) ==
  LET bad == {k \in 1..Len(file) : file[k].points \notin ValidPoints}
      paid == SelectSeq(file, LAMBDA e : e.points # Points(3))
  IN IF bad = {}
     THEN [ok |-> TRUE,
           tokenRecipients |-> [k \in 1..Len(file) |-> file[k].account],
           tokenAmounts |-> [k \in 1..Len(paid) |-> AmountOfPoints(paid[k].points)],
           account |-> 0]
     ELSE [ok |-> FALSE, tokenRecipients |-> << >>, tokenAmounts |-> << >>,
           account |-> file[CHOOSE k \in bad : \A j \in bad : k <= j].account]

\* a mapping that leaves out the accounts with invalid points and returns the rest
mapPointsToAmountsSkipping(file) ==
  LET good == SelectSeq(file, LAMBDA e : e.points \in ValidPoints) IN
  [ok |-> TRUE,
   tokenRecipients |-> [k \in 1..Len(good) |-> good[k].account],
   tokenAmounts |-> [k \in 1..Len(good) |-> AmountOfPoints(good[k].points)],
   account |-> 0]

\* the for-in loop of lines 670-711 visits the keys in file order and throws at the
\* first account whose points fall in the default case of the switch
mapPointsToAmounts(file) ==
  LET bad == {k \in 1..Len(file) : file[k].points \notin ValidPoints} IN
  IF bad = {}
  THEN [ok |-> TRUE,
        tokenRecipients |-> [k \in 1..Len(file) |-> file[k].account],
        tokenAmounts |-> [k \in 1..Len(file) |-> AmountOfPoints(file[k].points)],
        account |-> 0]
  ELSE [ok |-> FALSE, tokenRecipients |-> << >>, tokenAmounts |-> << >>,
        account |-> file[CHOOSE k \in bad : \A j \in bad : k <= j].account]

\* mapPointsToAmounts has not been called
NotMapped == << >>

\* Array.prototype.slice(a, b) on 0-based indices, b clipped to the length
Slice(s, a, b) == SubSeq(s, a + 1, Min(b, Len(s)))

numOfBatches == Len(tokenRecipients) \div BATCH_SIZE

\* values found under "points": the integers 2..16, two numbers that are not
\* integers, a number written as a string, and no value at all
PointsValues ==
  {Points(k) : k \in 2..16} \cup {JsNumber(35), JsNumber(149), JsString(30), JsUndefined}

\* the recipients files of n accounts (the keys of a JSON object are unique: the
\* account at position j is account j)
FilesOfLen(n) ==
  {[j \in 1..n |-> [account |-> j, points |-> v[j]]] : v \in [1..n -> PointsValues]}

-----------------------------------------------------------------------------
(* Environment (scripts/providerSetup.ts:39-92, 374-386) *)

\* the value of process.env[name] when the variable is not set
Undefined == "<undefined>"

\* an environment in which every variable is set; local is the value of
\* DEPLOY_TO_LOCAL_ENVIRONMENT and nova the value of DEPLOY_GOVERNANCE_TO_NOVA
CompleteEnv(local, nova) ==
  [DEPLOY_TO_LOCAL_ENVIRONMENT |-> local,
   ETH_URL |-> "http://eth", ARB_URL |-> "http://arb", NOVA_URL |-> "http://nova",
   ETH_KEY |-> "0xe", ARB_KEY |-> "0xa", NOVA_KEY |-> "0xn",
   DEPLOY_CONFIG_FILE_LOCATION |-> "files/deployConfig.json",
   VESTED_RECIPIENTS_FILE_LOCATION |-> "files/vestedRecipients.json",
   DAO_RECIPIENTS_FILE_LOCATION |-> "files/daoRecipients.json",
   CLAIM_RECIPIENTS_FILE_LOCATION |-> "files/recipients.json",
   DEPLOYED_CONTRACTS_FILE_LOCATION |-> "deployedContracts.json",
   ARB_TXS_FILE_LOCATION |-> "files/arbTransferAssetsTXs.json",
   NOVA_TXS_FILE_LOCATION |-> "files/novaTransferAssetsTXs.json",
   DEPLOY_GOVERNANCE_TO_NOVA |-> nova]

\* the variables that hold the private keys of the deployers
KeyNames == {"ETH_KEY", "ARB_KEY", "NOVA_KEY"}

\* the private keys an environment may hold
KeyValues == {"0x1", "0x2"}

\* the keys of the environment of the whole deployment
DeployerKeys == [n \in KeyNames |-> "0x1"]

\* environment e with the keys ks
WithKeys(e, ks) == [n \in DOMAIN e |-> IF n \in DOMAIN ks THEN ks[n] ELSE e[n]]

\* environment e with the variables of u removed
Without(e, u) == [n \in DOMAIN e |-> IF n \in u THEN Undefined ELSE e[n]]

\* process.env: variable name -> value, Undefined for a variable that is not set
env == Without(WithKeys(CompleteEnv(localFlag, novaFlag), keys), unset)

\* the object envVars of lines 39-54, read from process.env
envVars ==
  [isLocalDeployment |-> env["DEPLOY_TO_LOCAL_ENVIRONMENT"],
   ethRpc |-> env["ETH_URL"],
   arbRpc |-> env["ARB_URL"],
   novaRpc |-> env["NOVA_URL"],
   ethDeployerKey |-> env["ETH_KEY"],
   arbDeployerKey |-> env["ARB_KEY"],
   novaDeployerKey |-> env["NOVA_KEY"],
   deployerConfigLocation |-> env["DEPLOY_CONFIG_FILE_LOCATION"],
   vestedRecipientsLocation |-> env["VESTED_RECIPIENTS_FILE_LOCATION"],
   daoRecipientsLocation |-> env["DAO_RECIPIENTS_FILE_LOCATION"],
   claimRecipientsLocation |-> env["CLAIM_RECIPIENTS_FILE_LOCATION"],
   deployedContractsLocation |-> env["DEPLOYED_CONTRACTS_FILE_LOCATION"],
   arbTransferAssetsTXsLocation |-> env["ARB_TXS_FILE_LOCATION"],
   novaTransferAssetsTXsLocation |-> env["NOVA_TXS_FILE_LOCATION"]]

\* !v of JavaScript for a value that is a string or undefined
Not(v) == v = Undefined \/ v = ""

\* line 62: !conf.isLocalDeployment, the guard of the check of ethDeployerKey
EthKeyChecked(conf) == Not(conf.isLocalDeployment)

\* the if statements of checkEnvVars in source order: their condition and their message
EnvChecks(conf, missing) ==
  LET InEnv(f) == [fails |-> conf[f] = Undefined,
                   msg |-> "Missing " \o f \o " in env vars"]
      OnDisk(f) == [fails |-> conf[f] \in missing,
                    msg |-> "Missing file at " \o conf[f]]
  IN << InEnv("isLocalDeployment"),
        InEnv("ethRpc"),
        InEnv("arbRpc"),
        InEnv("novaRpc"),
        [fails |-> EthKeyChecked(conf) /\ conf.ethDeployerKey = Undefined,
         msg |-> "Missing ethDeployerKey in env vars"],
        InEnv("arbDeployerKey"),
        InEnv("novaDeployerKey"),
        InEnv("deployerConfigLocation"),
        OnDisk("deployerConfigLocation"),
        InEnv("vestedRecipientsLocation"),
        OnDisk("vestedRecipientsLocation"),
        InEnv("daoRecipientsLocation"),
        OnDisk("daoRecipientsLocation"),
        InEnv("claimRecipientsLocation"),
        OnDisk("claimRecipientsLocation"),
        InEnv("deployedContractsLocation"),
        InEnv("arbTransferAssetsTXsLocation"),
        InEnv("novaTransferAssetsTXsLocation") >>

\* checkEnvVars(conf): the message of the first check that throws, "ok" when none does
checkEnvVars(conf, missing) ==
  LET checks == EnvChecks(conf, missing)
      failing == {k \in 1..Len(checks) : checks[k].fails}
  IN IF failing = {} THEN "ok"
     ELSE checks[CHOOSE k \in failing : \A j \in failing : k <= j].msg

\* lines 374-377
isDeployingToNova == env["DEPLOY_GOVERNANCE_TO_NOVA"] = "true"

\* lines 384-386
isLocalDeployment == envVars.isLocalDeployment # "false"

\* the values of DEPLOY_GOVERNANCE_TO_NOVA the whole script is run with: governance
\* on Nova wanted or not
SequencerNovaFlags == {"true", "false"}

\* every variable is set, for the production networks
ProductionEnv == unset = {} /\ localFlag = "false" /\ keys = DeployerKeys

\* the variables envVars reads, with the field each one becomes
FieldOf ==
  [DEPLOY_TO_LOCAL_ENVIRONMENT |-> "isLocalDeployment",
   ETH_URL |-> "ethRpc", ARB_URL |-> "arbRpc", NOVA_URL |-> "novaRpc",
   ETH_KEY |-> "ethDeployerKey", ARB_KEY |-> "arbDeployerKey",
   NOVA_KEY |-> "novaDeployerKey",
   DEPLOY_CONFIG_FILE_LOCATION |-> "deployerConfigLocation",
   VESTED_RECIPIENTS_FILE_LOCATION |-> "vestedRecipientsLocation",
   DAO_RECIPIENTS_FILE_LOCATION |-> "daoRecipientsLocation",
   CLAIM_RECIPIENTS_FILE_LOCATION |-> "claimRecipientsLocation",
   DEPLOYED_CONTRACTS_FILE_LOCATION |-> "deployedContractsLocation",
   ARB_TXS_FILE_LOCATION |-> "arbTransferAssetsTXsLocation",
   NOVA_TXS_FILE_LOCATION |-> "novaTransferAssetsTXsLocation"]

\* values of DEPLOY_TO_LOCAL_ENVIRONMENT: local, production, and set to nothing
LocalFlags == {"true", "false", ""}

\* the sets of variables that are not set in the environments checkEnvVars is tried
\* on: at most MaxMissing of the variables envVars reads
UnsetChoices == {u \in SUBSET DOMAIN FieldOf : Cardinality(u) <= MaxMissing}

\* the files checkEnvVars looks for
CheckedFiles ==
  {"files/deployConfig.json", "files/vestedRecipients.json", "files/daoRecipients.json",
   "files/recipients.json"}

\* all the files are there, or one of them is not
MissingFileChoices == {{}} \cup {{f} : f \in CheckedFiles}

-----------------------------------------------------------------------------
(* Networks and signers (scripts/providerSetup.ts:33-35, 94-98, 217-297) *)

ETH_CHAIN_ID == 1
ARBITRUM_ONE_CHAIN_ID == 42161
ARBITRUM_NOVA_CHAIN_ID == 42170

\* the production chain id of each chain
ProductionId ==
  [eth |-> ETH_CHAIN_ID, arb |-> ARBITRUM_ONE_CHAIN_ID, nova |-> ARBITRUM_NOVA_CHAIN_ID]

\* ids a provider may report: the three production ids and the id of a local test node
ChainIds == {ETH_CHAIN_ID, ARBITRUM_ONE_CHAIN_ID, ARBITRUM_NOVA_CHAIN_ID, 1337}

NoChainIds == [c \in Chains |-> 0]
NoDeployers == [c \in Chains |-> "none"]

\* the name the error messages give to a chain
LayerName == [eth |-> "L1", arb |-> "L2", nova |-> "Nova"]

\* the chains in the order in which getDeployersAndConfig asks for their ids
GuardOrder == << "eth", "arb", "nova" >>

\* getSigner(provider, key): a wallet of the key, or account 0 of the node behind the
\* provider when there is no key
getSigner(key) == IF ~Not(key) THEN "Wallet" ELSE "provider.getSigner(0)"

\* a local check that looks at the L1 chain only
LocalGuardFailsL1Only(c, id) == c = "eth" /\ id = ProductionId[c]

\* lines 242-258, local mode: the chain reports its production id
LocalGuardFails(c, id) == id = ProductionId[c]

\* lines 281-292, production mode: the chain does not report its production id
ProductionGuardFails(c, id) == id # ProductionId[c]

\* the guard of getDeployersAndConfig for the ids the three chains reported: the
\* message of the first check that throws, "ok" when none does
networkGuard(local, ids) ==
  LET failing == {k \in 1..Len(GuardOrder) :
                    IF local THEN LocalGuardFails(GuardOrder[k], ids[GuardOrder[k]])
                    ELSE ProductionGuardFails(GuardOrder[k], ids[GuardOrder[k]])}
      first == GuardOrder[CHOOSE k \in failing : \A j \in failing : k <= j]
  IN IF failing = {} THEN "ok"
     ELSE IF local THEN "Production chain ID used in test env for " \o LayerName[first]
     ELSE "Production chain ID should be used in production mode for " \o LayerName[first]

\* nothing was printed
NoLog == << >>

\* the fields of envVars that hold a private key
KeyFields == {"ethDeployerKey", "arbDeployerKey", "novaDeployerKey"}

\* a summary whose masks are overwritten by the spread of envVars
EnvironmentSummaryUnmasked(conf) == conf

\* { ...envVars, arbDeployerKey: "******", ethDeployerKey: "******",
\*   novaDeployerKey: "******" }, lines 207-210
EnvironmentSummary(conf) ==
  [f \in DOMAIN conf |-> IF f \in KeyFields THEN "******" ELSE conf[f]]

\* the functions checked on their own have not been called
Unused ==
  /\ envChecked = "none"
  /\ tokenRecipientsByPoints = << >>
  /\ mapped = NotMapped
  /\ chainId = NoChainIds
  /\ deployers = NoDeployers
  /\ logged = NoLog
  /\ cache = EmptyRecord
  /\ spc = "load"
  /\ written = EmptyRecord

-----------------------------------------------------------------------------
(* Transactions and the chains *)

NoPayload == [dist |-> 0, index |-> 0, recipients |-> << >>, amounts |-> << >>]

Tx(n, r, p) == [name |-> n, run |-> r, payload |-> p]

SetRecipientsName == "tokenDistributor.setRecipients"

\* a transaction named n submitted by execution r is still unmined
IsPending(n, r) ==
  \E c \in Chains : \E k \in 1..Len(pending[c]) :
     pending[c][k].name = n /\ pending[c][k].run = r

NoneError == [kind |-> "", detail |-> ""]
NoMessages == [m \in {"setTokenTx", "setGatewaysTX"} |-> "none"]

Running == status = "running"
Cur == Program[pc]
AtOp(o) == Running /\ bpc = "none" /\ pc < PcEnd /\ Cur.op = o

\* a chain mines the oldest transaction submitted to it
Mine(c) ==
  /\ pending[c] # << >>
  /\ LET tx == Head(pending[c]) IN
       /\ pending' = [pending EXCEPT ![c] = Tail(@)]
       /\ registered' = IF tx.name = SetRecipientsName
                        THEN [registered EXCEPT ![tx.payload.dist] = Append(@, tx.payload)]
                        ELSE registered
  /\ UNCHANGED << status, run, pc, deployedContracts, disk, msgStatus, error,
                  distributor, resumedOk, loopVars, inputVars, started, offlineVars >>

-----------------------------------------------------------------------------
(* Addresses, Deployed events and the arguments of the governance calls            *)
(* (hardhat.config.ts:311-415)                                                     *)

\* an address is 160 bits, kept as ten 16 bit limbs, the most significant first
LimbBase == 65536
AddressLimbs == 10
NoAddress == << >>

\* 0x1111000000000000000000000000000000001111, the offset of the L1 to L2 alias
AliasOffset == << 4369, 0, 0, 0, 0, 0, 0, 0, 0, 4369 >>

\* the carry into limb k of the sum of a and b
RECURSIVE Carry(_, _, _)
Carry(a, b, k) ==
  IF k = AddressLimbs THEN 0
  ELSE (a[k + 1] + b[k + 1] + Carry(a, b, k + 1)) \div LimbBase

\* a script that passes the address of the L1 timelock as it is
applyAliasSkipped(a) == a

\* new Address(a).applyAlias().value: a + offset modulo 2^160
applyAlias(a) ==
  [k \in 1..AddressLimbs |-> (a[k] + AliasOffset[k] + Carry(a, AliasOffset, k)) % LimbBase]

\* the contracts whose addresses are passed on between the steps
PassedOn ==
  << "l1UpgradeExecutorLogic", "l2CoreTimelock", "l2Executor", "l1Timelock",
     "l1Executor", "novaUpgradeExecutorProxy" >>

\* the address of contract k created by execution r: every contract has its own; those
\* of the first execution are low, those of a later one are so high that the alias
\* wraps around
ContractAddress(k, r) ==
  LET n == CHOOSE j \in 1..Len(PassedOn) : PassedOn[j] = k IN
    IF r = 1
    THEN [j \in 1..AddressLimbs |-> IF j = AddressLimbs THEN n ELSE 0]
    ELSE [j \in 1..AddressLimbs |->
            IF j = 1 THEN LimbBase - r
            ELSE IF j = AddressLimbs THEN LimbBase - n ELSE LimbBase - 1]

\* the args of the Deployed event of the transaction deployStep1 of execution r
\* (of its seven addresses, the two that are passed on to a call)
L2DeployedEvent(r) ==
  [coreTimelock |-> ContractAddress("l2CoreTimelock", r),
   executor |-> ContractAddress("l2Executor", r)]

\* the args of the Deployed event of the transaction deployStep2 of execution r
\* (without the proxy admin)
L1DeployedEvent(r) ==
  [timelock |-> ContractAddress("l1Timelock", r),
   executor |-> ContractAddress("l1Executor", r)]

NoL2Result == [coreTimelock |-> NoAddress, executor |-> NoAddress]
NoL1Result == [timelock |-> NoAddress, executor |-> NoAddress]

GovernanceCalls == {"deployStep2", "deployStep3", "novaUpgradeExecutor.initialize"}
NoCalls == [n \in GovernanceCalls |-> << >>]

\* x.address of a contract this process deployed and keeps under key k
AddressHeld(k) == ContractAddress(k, deployedContracts[k])

\* the addresses among the arguments of the three calls (lines 369-375, 401, 408-411)
Arguments(n) ==
  CASE n = "deployStep2" ->
         << AddressHeld("l1UpgradeExecutorLogic"), l2DeployResult.coreTimelock >>
    [] n = "deployStep3" ->
         << applyAlias(l1DeployResult.timelock) >>
    [] n = "novaUpgradeExecutor.initialize" ->
         << AddressHeld("novaUpgradeExecutorProxy"), applyAlias(l1DeployResult.timelock) >>

\* the call is recorded with the addresses it passes
Pass(n) == calls' = IF n \in GovernanceCalls THEN [calls EXCEPT ![n] = Arguments(n)] ELSE calls

\* the locals of deployGovernance are gone
ForgetResults == l2DeployResult' = NoL2Result /\ l1DeployResult' = NoL1Result

staticVars == << envState, missingFiles, envChecked, tokenRecipientsByPoints, mapped,
                 setupVars, storeVars >>

-----------------------------------------------------------------------------
(* The steps of deployGovernance *)

\* the next instruction; when it is the first one of a function of StepOrder, the
\* call of that function is recorded
Advance ==
  /\ pc' = pc + 1
  /\ started' = IF IsStepStart(pc + 1) /\ StepAt(pc + 1) \in 1..Len(StepOrder)
                THEN Append(started, StepAt(pc + 1))
                ELSE started

\* the process stops at the instruction that threw
Stay == pc' = pc /\ started' = started

\* no call of setClaimRecipients is active: its frame and locals do not exist
ResetLoop ==
  /\ bpc' = "none"
  /\ i' = 0
  /\ gasPriceBestGuess' = 0
  /\ tokenRecipients' = << >>
  /\ tokenAmounts' = << >>
  /\ samples' = << >>
  /\ polls' = 0
  /\ submitted' = << >>
  /\ delays' = 0


\* getDeployers(): signers for the three chains
GetDeployers ==
  /\ AtOp("local")
  /\ Advance
  /\ UNCHANGED << status, run, deployedContracts, disk, msgStatus, error,
                  distributor, resumedOk, loopVars, inputVars, chainVars, offlineVars >>

\* what deploy() and a contract method call do: submit the transaction and return
Submit(c, n) == pending' = [pending EXCEPT ![c] = Append(@, Tx(n, run, NoPayload))]

\* await new X__factory(signer).deploy(...)
DeployContract ==
  /\ AtOp("deploy")
  /\ Submit(Cur.chain, Cur.name)
  /\ Advance
  /\ UNCHANGED << status, run, deployedContracts, disk, msgStatus, error,
                  registered, distributor, resumedOk, loopVars, inputVars, offlineVars >>

\* await contract.method(...) without .wait()
SendTransaction ==
  /\ AtOp("send")
  /\ Submit(Cur.chain, Cur.name)
  /\ Pass(Cur.name)
  /\ Advance
  /\ UNCHANGED << status, run, deployedContracts, disk, msgStatus, error,
                  registered, distributor, resumedOk, loopVars, inputVars, staticVars,
                  l2DeployResult, l1DeployResult >>

\* await x.deployed() / await tx.wait(): resumes once the transaction is mined
AwaitConfirmation ==
  /\ AtOp("deployed") \/ AtOp("wait")
  /\ ~IsPending(Cur.name, run)
  /\ Advance
  /\ UNCHANGED << status, run, deployedContracts, disk, msgStatus, error,
                  distributor, resumedOk, loopVars, inputVars, chainVars, offlineVars >>

\* a view call or RPC read
ReadChain ==
  /\ AtOp("read")
  /\ Advance
  /\ UNCHANGED << status, run, deployedContracts, disk, msgStatus, error,
                  distributor, resumedOk, loopVars, inputVars, chainVars, offlineVars >>

\* the addresses stored are those of the contracts this execution created
StoreKeys(ks) ==
  deployedContracts' = [k \in DOMAIN deployedContracts \cup ks |->
                          IF k \in ks THEN run ELSE deployedContracts[k]]

\* a step that saves the record to the file each time it stores an address
StoreAddressesAndSave ==
  /\ AtOp("store")
  /\ StoreKeys(Cur.keys)
  /\ disk' = [exists |-> TRUE, content |-> deployedContracts', complete |-> TRUE]
  /\ Advance
  /\ UNCHANGED << status, run, msgStatus, error, distributor, resumedOk,
                  loopVars, inputVars, chainVars, offlineVars >>

\* deployedContracts["key"] = x.address
StoreAddresses ==
  /\ AtOp("store")
  /\ StoreKeys(Cur.keys)
  /\ Advance
  /\ UNCHANGED << status, run, disk, msgStatus, error, distributor, resumedOk,
                  loopVars, inputVars, chainVars, offlineVars >>

\* a step that notes the missing event and goes on with what it has
ReadDeployedEventAndGoOn ==
  /\ AtOp("event")
  /\ \E hasEvent \in BOOLEAN :
       IF hasEvent
       THEN /\ IF Cur.name = "deployStep1"
               THEN l2DeployResult' = L2DeployedEvent(run) /\ UNCHANGED l1DeployResult
               ELSE l1DeployResult' = L1DeployedEvent(run) /\ UNCHANGED l2DeployResult
            /\ UNCHANGED error
       ELSE /\ error' = [kind |-> "TypeError", detail |-> Cur.name]
            /\ UNCHANGED << l2DeployResult, l1DeployResult >>
  /\ Advance
  /\ UNCHANGED << status, run, deployedContracts, disk, msgStatus, distributor, resumedOk,
                  loopVars, inputVars, chainVars, staticVars, calls >>

\* receipt.events?.filter(topic = Deployed)[0].args: a TypeError when no such event
ReadDeployedEvent ==
  /\ AtOp("event")
  /\ \E hasEvent \in BOOLEAN :
       IF hasEvent
       THEN /\ IF Cur.name = "deployStep1"
               THEN l2DeployResult' = L2DeployedEvent(run) /\ UNCHANGED l1DeployResult
               ELSE l1DeployResult' = L1DeployedEvent(run) /\ UNCHANGED l2DeployResult
            /\ Advance
            /\ UNCHANGED << status, error >>
       ELSE /\ status' = "failed"
            /\ error' = [kind |-> "TypeError", detail |-> Cur.name]
            /\ Stay
            /\ UNCHANGED << l2DeployResult, l1DeployResult >>
  /\ UNCHANGED << run, deployedContracts, disk, msgStatus, distributor, resumedOk,
                  loopVars, inputVars, chainVars, staticVars, calls >>

\* await l1ToL2Msgs[k].waitForStatus()
WaitForMessageStatus ==
  /\ AtOp("waitForStatus")
  /\ \E st \in MessageStatuses : msgStatus' = [msgStatus EXCEPT ![Cur.name] = st]
  /\ Advance
  /\ UNCHANGED << status, run, deployedContracts, disk, error, distributor, resumedOk,
                  loopVars, inputVars, chainVars, offlineVars >>

\* a check that also accepts a message whose funds are deposited but which has not run
IsRedeemedOrFunded(st) == st \in {"REDEEMED", "FUNDS_DEPOSITED_ON_L2"}

\* lines 502 and 507: status == L1ToL2MessageStatus.REDEEMED
IsRedeemed(st) == st = "REDEEMED"

\* if (tx.status != REDEEMED) throw new Error(".. not redeemed. Status: " + status)
CheckMessageRedeemed ==
  /\ AtOp("check")
  /\ IF ~IsRedeemed(msgStatus[Cur.name])
     THEN /\ status' = "failed"
          /\ error' = [kind |-> "NotRedeemed:" \o Cur.name, detail |-> msgStatus[Cur.name]]
          /\ Stay
     ELSE Advance /\ UNCHANGED << status, error >>
  /\ UNCHANGED << run, deployedContracts, disk, msgStatus, distributor, resumedOk,
                  loopVars, inputVars, chainVars, offlineVars >>

\* fs.writeFileSync(DEPLOYED_CONTRACTS_FILE_NAME, JSON.stringify(deployedContracts))
\* writeFileSync is open (create or truncate), write, close: three system calls, and
\* the process can be ended between them
WriteFile(content) == disk' = [exists |-> TRUE, content |-> content, complete |-> TRUE]

\* the open of writeFileSync: the file exists and holds no byte
OpenFile == disk' = [exists |-> TRUE, content |-> EmptyRecord, complete |-> FALSE]

OpenAddresses ==
  /\ AtOp("openFile")
  /\ OpenFile
  /\ Advance
  /\ UNCHANGED << status, run, deployedContracts, msgStatus, error, distributor,
                  resumedOk, loopVars, inputVars, chainVars, offlineVars >>

WriteAddresses ==
  /\ AtOp("writeAddresses")
  /\ WriteFile(deployedContracts)
  /\ Advance
  /\ UNCHANGED << status, run, deployedContracts, msgStatus, error, distributor,
                  resumedOk, loopVars, inputVars, chainVars, offlineVars >>

\* deployGovernance returned: main logs and the process ends
MainDone ==
  /\ Running /\ pc = PcEnd
  /\ status' = "done"
  /\ UNCHANGED << run, pc, deployedContracts, disk, msgStatus, error, distributor,
                  resumedOk, loopVars, inputVars, chainVars, started, offlineVars >>

IsChainCall(ins) == ins.op \in {"deploy", "send", "deployed", "wait", "read", "waitForStatus"}

\* a script that catches the rejection where it happens and goes on
RejectionSwallowed == "running"

\* no try/catch below main: a rejected await leaves deployGovernance and ends the run
RejectionPropagates == "failed"

\* an RPC or contract call rejects: the error propagates to main
ChainCallThrows ==
  /\ Running /\ bpc = "none" /\ pc < PcEnd /\ IsChainCall(Cur)
  /\ status' = RejectionPropagates
  /\ error' = [kind |-> "ChainCallError", detail |-> Cur.name]
  /\ UNCHANGED << run, pc, deployedContracts, disk, msgStatus, distributor, resumedOk,
                  loopVars, inputVars, chainVars, started, offlineVars >>

\* the process is terminated from outside: what it held in memory is gone
Kill ==
  /\ Running
  /\ status' = "killed"
  /\ deployedContracts' = EmptyRecord
  /\ msgStatus' = NoMessages
  /\ ResetLoop
  /\ ForgetResults
  /\ UNCHANGED << run, pc, disk, error, distributor, resumedOk, inputVars, chainVars,
                  started, staticVars, calls >>

-----------------------------------------------------------------------------
(* setClaimRecipients (hardhat.config.ts:582-660) *)

\* the batch loop would start at the first batch the distributor d does not hold yet
StartsAtFirstUnconfirmed(d, s) ==
  /\ s = Len(registered[d])
  /\ \A k \in 1..Len(pending["arb"]) : pending["arb"][k].name # SetRecipientsName

\* await setClaimRecipients(tokenDistributor, arbDeployer), line 569; the recipients
\* file and the constant of line 596 are what the operator has put there by now
CallSetClaimRecipients ==
  /\ AtOp("setClaimRecipients")
  /\ bpc' = "start"
  /\ distributor' = run
  /\ nRecipients' \in SequencerRecipientCounts
  /\ badAccount' \in BadAccounts(nRecipients')
  /\ startBatch' \in SequencerStartBatches
  /\ resumedOk' = (resumedOk /\ StartsAtFirstUnconfirmed(run, startBatch'))
  /\ UNCHANGED << status, run, pc, deployedContracts, disk, msgStatus, error,
                  i, gasPriceBestGuess, tokenRecipients, tokenAmounts, samples, polls,
                  submitted, delays, chainVars, started, offlineVars >>

\* a loop that stops one index early: i < numOfBatches
StopsBeforeRemainder(k, n) == k < n

\* loop condition of line 597 for index k
LoopContinues(k, n) == k <= n

\* a loop that goes back one batch from the configured start
StartsOneBatchEarlier(s) == IF s > 0 THEN s - 1 ELSE s

\* line 596: let i = GovernanceConstants.L2_NUM_OF_RECIPIENT_BATCHES_ALREADY_SET
FirstIndex(s) == s

AfterLoopTest(k, n) == IF LoopContinues(k, n) THEN "getGasPrice" ELSE "returned"

\* lines 583-599: load and map the recipients, compute numOfBatches, start the loop
EnterBatchLoop ==
  /\ Running /\ bpc = "start"
  /\ LET m == mapPointsToAmounts(RecipientsFile(nRecipients, badAccount)) IN
       IF m.ok
       THEN /\ tokenRecipients' = m.tokenRecipients
            /\ tokenAmounts' = m.tokenAmounts
            /\ i' = FirstIndex(startBatch)
            /\ bpc' = AfterLoopTest(FirstIndex(startBatch),
                                    Len(m.tokenRecipients) \div BATCH_SIZE)
            /\ UNCHANGED << status, error >>
       ELSE /\ status' = "failed"
            /\ error' = [kind |-> "IncorrectPoints", detail |-> ToString(m.account)]
            /\ bpc' = "none"
            /\ UNCHANGED << tokenRecipients, tokenAmounts, i >>
  /\ submitted' = << >>
  /\ samples' = << >>
  /\ polls' = 0
  /\ delays' = 0
  /\ UNCHANGED << run, pc, deployedContracts, disk, msgStatus, gasPriceBestGuess,
                  distributor, resumedOk, inputVars, chainVars, started, offlineVars >>

\* a guard that also suspends at the limit itself: gte instead of gt
ReachesLimit(g) == g >= GAS_PRICE_UNACCEPTABLE_LIMIT

\* gasPriceBestGuess.gt(GAS_PRICE_UNACCEPTABLE_LIMIT), line 605
ExceedsLimit(g) == g > GAS_PRICE_UNACCEPTABLE_LIMIT

\* a guard that resumes as soon as the price is back at or below the limit
BackUnderLimit(g) == g <= GAS_PRICE_UNACCEPTABLE_LIMIT

\* gasPriceBestGuess.eq(BASE_GAS_PRICE), line 618
FellBackToBase(g) == g = BASE_GAS_PRICE

\* line 602-605: sample the gas price at the start of an iteration
SampleGasPrice ==
  /\ Running /\ bpc = "getGasPrice"
  /\ \E g \in GasPrices :
       /\ gasPriceBestGuess' = g
       /\ samples' = << g >>
       /\ bpc' = IF ExceedsLimit(g) THEN "gasGuard" ELSE "sleep"
  /\ polls' = 0
  /\ delays' = 0
  /\ UNCHANGED << status, run, pc, deployedContracts, disk, msgStatus, error, i,
                  tokenRecipients, tokenAmounts, submitted, distributor, resumedOk,
                  inputVars, chainVars, started, offlineVars >>

\* the history keeps the first sample and the two most recent ones
Remember(h, g) == IF Len(h) < 3 THEN Append(h, g) ELSE << h[1], h[3], g >>

\* a guard that gives up waiting after its second sleep and lets the batch go
GasGuardPollWithTimeout ==
  /\ Running /\ bpc = "gasGuard"
  /\ polls < MaxPolls
  /\ polls' = polls + 1
  /\ \E g \in GasPrices :
       /\ gasPriceBestGuess' = g
       /\ samples' = Remember(samples, g)
       /\ bpc' = IF FellBackToBase(g) \/ polls >= 1 THEN "sleep" ELSE "gasGuard"
  /\ UNCHANGED << status, run, pc, deployedContracts, disk, msgStatus, error, i,
                  tokenRecipients, tokenAmounts, submitted, delays, distributor,
                  resumedOk, inputVars, chainVars, started, offlineVars >>

\* a guard whose loop has no break: it goes on polling whatever the sample
GasGuardPollWithoutBreak ==
  /\ Running /\ bpc = "gasGuard"
  /\ polls < MaxPolls
  /\ polls' = polls + 1
  /\ \E g \in GasPrices :
       /\ gasPriceBestGuess' = g
       /\ samples' = Remember(samples, g)
  /\ bpc' = "gasGuard"
  /\ UNCHANGED << status, run, pc, deployedContracts, disk, msgStatus, error, i,
                  tokenRecipients, tokenAmounts, submitted, delays, distributor,
                  resumedOk, inputVars, chainVars, started, offlineVars >>

\* a guard whose wait stands in for the one second sleep: on the base price it goes
\* straight to the slice
GasGuardPollThenSlice ==
  /\ Running /\ bpc = "gasGuard"
  /\ polls < MaxPolls
  /\ polls' = polls + 1
  /\ \E g \in GasPrices :
       /\ gasPriceBestGuess' = g
       /\ samples' = Remember(samples, g)
       /\ bpc' = IF FellBackToBase(g) THEN "slice" ELSE "gasGuard"
  /\ UNCHANGED << status, run, pc, deployedContracts, disk, msgStatus, error, i,
                  tokenRecipients, tokenAmounts, submitted, delays, distributor,
                  resumedOk, inputVars, chainVars, started, offlineVars >>

\* lines 606-621, one iteration of while (true): sleep 30 s, sample again, break on base
GasGuardPoll ==
  /\ Running /\ bpc = "gasGuard"
  /\ polls < MaxPolls
  /\ polls' = polls + 1
  /\ \E g \in GasPrices :
       /\ gasPriceBestGuess' = g
       /\ samples' = Remember(samples, g)
       /\ bpc' = IF FellBackToBase(g) THEN "sleep" ELSE "gasGuard"
  /\ UNCHANGED << status, run, pc, deployedContracts, disk, msgStatus, error, i,
                  tokenRecipients, tokenAmounts, submitted, delays, distributor,
                  resumedOk, inputVars, chainVars, started, offlineVars >>

\* a loop that goes on to the slice without sampling again after a wait
SmoothingDelayKeepsGuess ==
  /\ Running /\ bpc \in {"sleep", "gasGuard"}
  /\ delays' = delays + 1
  /\ samples' = << >>
  /\ polls' = 0
  /\ bpc' = "slice"
  /\ UNCHANGED << status, run, pc, deployedContracts, disk, msgStatus, error, i,
                  gasPriceBestGuess, tokenRecipients, tokenAmounts, submitted,
                  distributor, resumedOk, inputVars, chainVars, started, offlineVars >>

\* line 625: sleep 1 second
SmoothingDelay ==
  /\ Running /\ bpc = "sleep"
  /\ delays' = delays + 1
  /\ samples' = << >>
  /\ polls' = 0
  /\ bpc' = "slice"
  /\ UNCHANGED << status, run, pc, deployedContracts, disk, msgStatus, error, i,
                  gasPriceBestGuess, tokenRecipients, tokenAmounts, submitted,
                  distributor, resumedOk, inputVars, chainVars, started, offlineVars >>

\* lines 631-642: the slice of batch k; << >> stands for the break of line 637
SliceBatch(list, k) ==
  IF k < Len(list) \div BATCH_SIZE
  THEN Slice(list, k * BATCH_SIZE, (k + 1) * BATCH_SIZE)
  ELSE IF Len(list) = (Len(list) \div BATCH_SIZE) * BATCH_SIZE
       THEN << >>
       ELSE Slice(list, k * BATCH_SIZE, Len(list))

\* lines 631-637: the loop breaks at the terminal index when nothing is left
NothingLeft(k) ==
  /\ ~(k < numOfBatches)
  /\ Len(tokenRecipients) = numOfBatches * BATCH_SIZE

\* the bindings of one iteration (let gasPriceBestGuess, line 602) go out of scope
EndIteration ==
  /\ gasPriceBestGuess' = 0
  /\ samples' = << >>
  /\ polls' = 0
  /\ delays' = 0

\* lines 627-646: slice the batch and submit setRecipients, or break
SliceAndSubmit ==
  /\ Running /\ bpc = "slice"
  /\ IF NothingLeft(i)
     THEN /\ bpc' = "returned"
          /\ EndIteration
          /\ UNCHANGED << pending, submitted >>
     ELSE LET batch == [dist |-> distributor, index |-> i,
                        recipients |-> SliceBatch(tokenRecipients, i),
                        amounts |-> SliceBatch(tokenAmounts, i)] IN
          /\ pending' = [pending EXCEPT !["arb"] = Append(@, Tx(SetRecipientsName, run, batch))]
          /\ submitted' = Append(submitted, batch)
          /\ bpc' = "wait"
          /\ UNCHANGED << gasPriceBestGuess, samples, polls, delays >>
  /\ UNCHANGED << status, run, pc, deployedContracts, disk, msgStatus, error, i,
                  tokenRecipients, tokenAmounts, distributor, resumedOk, inputVars,
                  registered, started, offlineVars >>

\* a loop that does not wait for the receipt of the batch
ReceiptNotAwaited == TRUE

\* the receipt of the batch submitted last is available
BatchConfirmed == ~IsPending(SetRecipientsName, run)

\* lines 645-659 and the i++ of line 598: wait for the receipt, log, next index
AwaitBatchReceipt ==
  /\ Running /\ bpc = "wait"
  /\ BatchConfirmed
  /\ i' = i + 1
  /\ bpc' = AfterLoopTest(i + 1, numOfBatches)
  /\ EndIteration
  /\ UNCHANGED << status, run, pc, deployedContracts, disk, msgStatus, error,
                  tokenRecipients, tokenAmounts, submitted, distributor, resumedOk,
                  inputVars, chainVars, started, offlineVars >>

\* getGasPrice, setRecipients or wait rejects inside the loop
\* a loop that catches the rejection of a batch, logs it and goes on with the next index
BatchCallThrowsAndContinues ==
  /\ Running /\ bpc \in {"getGasPrice", "gasGuard", "slice", "wait"}
  /\ i < numOfBatches
  /\ i' = i + 1
  /\ bpc' = "getGasPrice"
  /\ EndIteration
  /\ UNCHANGED << status, run, pc, deployedContracts, disk, msgStatus, error,
                  tokenRecipients, tokenAmounts, submitted, distributor, resumedOk,
                  inputVars, chainVars, started, offlineVars >>

\* an RPC call of the loop, the submission of a batch or the wait for its receipt
\* rejects: the error leaves setClaimRecipients
BatchCallThrows ==
  /\ Running /\ bpc \in {"getGasPrice", "gasGuard", "slice", "wait"}
  /\ status' = RejectionPropagates
  /\ error' = [kind |-> "ChainCallError", detail |-> bpc]
  /\ ResetLoop
  /\ UNCHANGED << run, pc, deployedContracts, disk, msgStatus, distributor, resumedOk,
                  inputVars, chainVars, started, offlineVars >>

\* setClaimRecipients returns to deployAndInitTokenDistributor
ReturnFromSetClaimRecipients ==
  /\ Running /\ bpc = "returned" /\ pc < PcEnd /\ Cur.op = "setClaimRecipients"
  /\ bpc' = "none"
  /\ Advance
  /\ UNCHANGED << status, run, deployedContracts, disk, msgStatus, error, i,
                  gasPriceBestGuess, tokenRecipients, tokenAmounts, samples, polls, submitted,
                  delays, distributor, resumedOk, inputVars, chainVars, offlineVars >>

-----------------------------------------------------------------------------
(* Specifications *)


FreshLoop ==
  /\ i = 0
  /\ gasPriceBestGuess = 0
  /\ tokenRecipients = << >>
  /\ tokenAmounts = << >>
  /\ samples = << >>
  /\ polls = 0
  /\ submitted = << >>
  /\ delays = 0

\* a script that starts from the record found in the file
RecordFromFile == disk.content

\* line 65: const deployedContracts = {}, evaluated when the module is loaded
InitialRecord == EmptyRecord

\* a new node process running main() of hardhat.config.ts
ProcessStart ==
  /\ status = "running"
  /\ run = 1
  /\ pc = 1
  /\ disk = NoFile
  /\ deployedContracts = InitialRecord
  /\ pending = [c \in Chains |-> << >>]
  /\ msgStatus = NoMessages
  /\ error = NoneError
  /\ bpc = "none"
  /\ FreshLoop
  /\ nRecipients = 0
  /\ startBatch = 0
  /\ distributor = 0
  /\ registered = [d \in 1..MaxRuns |-> << >>]
  /\ resumedOk = TRUE
  /\ started = << >>
  /\ badAccount = 0
  /\ l2DeployResult = NoL2Result
  /\ l1DeployResult = NoL1Result
  /\ calls = NoCalls

\* the script is run in one of the environments of a production deployment
Init ==
  /\ ProcessStart
  /\ ProductionEnv
  /\ novaFlag \in SequencerNovaFlags
  /\ missingFiles = {}
  /\ Unused

\* every transaction submitted so far has been mined
Settled == \A c \in Chains : pending[c] = << >>

\* the operator runs the script again after it ended and the chains have settled
Restart ==
  /\ status \in {"done", "failed", "killed"}
  /\ Settled
  /\ run < MaxRuns
  /\ status' = "running"
  /\ run' = run + 1
  /\ pc' = 1
  /\ deployedContracts' = InitialRecord
  /\ msgStatus' = NoMessages
  /\ error' = NoneError
  /\ ResetLoop
  /\ nRecipients' = 0
  /\ startBatch' = 0
  /\ distributor' = 0
  /\ started' = << >>
  /\ badAccount' = 0
  /\ ForgetResults
  /\ calls' = NoCalls
  /\ UNCHANGED << disk, resumedOk, chainVars, staticVars >>

Next ==
  \/ GetDeployers
  \/ DeployContract
  \/ SendTransaction
  \/ AwaitConfirmation
  \/ ReadChain
  \/ StoreAddresses
  \/ ReadDeployedEvent
  \/ WaitForMessageStatus
  \/ CheckMessageRedeemed
  \/ CallSetClaimRecipients
  \/ EnterBatchLoop
  \/ SampleGasPrice
  \/ GasGuardPoll
  \/ SmoothingDelay
  \/ SliceAndSubmit
  \/ AwaitBatchReceipt
  \/ ReturnFromSetClaimRecipients
  \/ OpenAddresses
  \/ WriteAddresses
  \/ MainDone
  \/ ChainCallThrows
  \/ BatchCallThrows
  \/ Kill
  \/ Restart
  \/ \E c \in Chains : Mine(c)

Spec == Init /\ [][Next]_vars

-----------------------------------------------------------------------------
(* One execution of the script when every call returns: a transaction that was     *)
(* submitted is mined, the process takes its next step, and a gas guard that waits *)
(* sees the base price at its last poll at the latest                              *)

\* a poll of the gas guard under the assumption that the price falls back in time
GasGuardPollFalling ==
  /\ GasGuardPoll
  /\ polls' = MaxPolls => gasPriceBestGuess' = BASE_GAS_PRICE

\* the steps the process takes by itself
ProcessStep ==
  \/ GetDeployers
  \/ DeployContract
  \/ SendTransaction
  \/ AwaitConfirmation
  \/ ReadChain
  \/ StoreAddresses
  \/ ReadDeployedEvent
  \/ WaitForMessageStatus
  \/ CheckMessageRedeemed
  \/ CallSetClaimRecipients
  \/ EnterBatchLoop
  \/ SampleGasPrice
  \/ GasGuardPollFalling
  \/ SmoothingDelay
  \/ SliceAndSubmit
  \/ AwaitBatchReceipt
  \/ ReturnFromSetClaimRecipients
  \/ OpenAddresses
  \/ WriteAddresses
  \/ MainDone

NextLive ==
  \/ ProcessStep
  \/ ChainCallThrows
  \/ BatchCallThrows
  \/ Kill
  \/ \E c \in Chains : Mine(c)

SpecLive ==
  /\ Init
  /\ [][NextLive]_vars
  /\ WF_vars(ProcessStep)
  /\ \A c \in Chains : WF_vars(Mine(c))

-----------------------------------------------------------------------------
(* setClaimRecipients on its own: the function is called on a deployed      *)
(* distributor with any recipients file and any start constant; after the   *)
(* process was killed or failed it is called again on the same distributor  *)

\* keys stored by the instructions before p
StoredBefore(p) == UNION {Program[q].keys : q \in 1..(p - 1)}

InitBatch ==
  /\ status = "running"
  /\ run = 1
  /\ pc = SetClaimRecipientsPc
  /\ deployedContracts = [k \in StoredBefore(SetClaimRecipientsPc) |-> 1]
  /\ disk = NoFile
  /\ pending = [c \in Chains |-> << >>]
  /\ msgStatus = [m \in DOMAIN NoMessages |-> "REDEEMED"]
  /\ error = NoneError
  /\ bpc = "start"
  /\ FreshLoop
  /\ nRecipients \in RecipientCounts
  /\ startBatch \in 0..MaxStartBatch
  /\ distributor = 1
  /\ registered = [d \in 1..MaxRuns |-> << >>]
  /\ resumedOk = (startBatch = 0)
  /\ started = [k \in 1..Len(StepOrder) |-> k]
  /\ badAccount \in BadAccounts(nRecipients)
  /\ ProductionEnv
  /\ novaFlag = "true"
  /\ missingFiles = {}
  /\ Unused
  /\ l2DeployResult = NoL2Result
  /\ l1DeployResult = NoL1Result
  /\ calls = NoCalls

\* the start constant of a later run: left as it was, or set by the operator to the
\* number of batches the distributor holds at that moment
LaterStartBatches == {startBatch, Min(Len(registered[distributor]), MaxStartBatch)}

\* the function runs again on the same distributor; the operator may have repaired
\* the recipients file in between
CallAgain ==
  /\ status \in {"failed", "killed"}
  /\ run < MaxRuns
  /\ status' = "running"
  /\ run' = run + 1
  /\ error' = NoneError
  /\ bpc' = "start"
  /\ i' = 0
  /\ gasPriceBestGuess' = 0
  /\ tokenRecipients' = << >>
  /\ tokenAmounts' = << >>
  /\ samples' = << >>
  /\ polls' = 0
  /\ submitted' = << >>
  /\ delays' = 0
  /\ startBatch' \in LaterStartBatches
  /\ badAccount' \in {badAccount, 0}
  /\ resumedOk' = (resumedOk /\ StartsAtFirstUnconfirmed(distributor, startBatch'))
  /\ UNCHANGED << pc, deployedContracts, disk, msgStatus, nRecipients, distributor,
                  chainVars, started, offlineVars >>

NextBatch ==
  \/ EnterBatchLoop
  \/ SampleGasPrice
  \/ GasGuardPoll
  \/ SmoothingDelay
  \/ SliceAndSubmit
  \/ AwaitBatchReceipt
  \/ BatchCallThrows
  \/ Kill
  \/ CallAgain
  \/ Mine("arb")

SpecBatch == InitBatch /\ [][NextBatch]_vars

-----------------------------------------------------------------------------
(* getDeployersAndConfig on its own: checkEnvVars, then the network guard, in any     *)
(* environment and for any chain ids the three providers report                      *)

InitEnv ==
  /\ ProcessStart
  /\ unset \in UnsetChoices
  /\ localFlag \in LocalFlags
  /\ keys \in [KeyNames -> KeyValues]
  /\ novaFlag = "false"
  /\ missingFiles \in MissingFileChoices
  /\ Unused

\* checkEnvVars(envVars) and, when it has returned, console.log("Environment
\* variables", ..), providerSetup.ts:205-211
CheckEnvVars ==
  /\ Running /\ envChecked = "none"
  /\ envChecked' = checkEnvVars(envVars, missingFiles)
  /\ logged' = IF envChecked' = "ok" THEN EnvironmentSummary(envVars) ELSE NoLog
  /\ UNCHANGED << status, run, pc, deployedContracts, disk, msgStatus, error, distributor,
                  resumedOk, loopVars, inputVars, chainVars, started, envState, missingFiles,
                  tokenRecipientsByPoints, mapped, chainId, deployers, storeVars,
                  flowVars >>

\* the error thrown by checkEnvVars leaves getDeployersAndConfig and ends the run
EnvCheckThrows ==
  /\ Running /\ envChecked \notin {"none", "ok"}
  /\ status' = RejectionPropagates
  /\ error' = [kind |-> "Error", detail |-> envChecked]
  /\ UNCHANGED << run, pc, deployedContracts, disk, msgStatus, distributor, resumedOk,
                  loopVars, inputVars, chainVars, started, offlineVars >>

\* lines 213-297: the recipients are loaded, the providers are created and asked for
\* their chain ids, the guard of the selected mode is applied, and the signers are
\* returned; loading a recipients file may throw (a file that does not parse, an
\* account with invalid points)
ConnectAndGuard ==
  /\ Running /\ envChecked = "ok" /\ deployers = NoDeployers
  /\ \E loads \in BOOLEAN : \E ids \in [Chains -> ChainIds] :
       LET guard == networkGuard(isLocalDeployment, ids) IN
         IF ~loads
         THEN /\ status' = RejectionPropagates
              /\ error' = [kind |-> "Error", detail |-> "loadRecipients"]
              /\ UNCHANGED << chainId, deployers >>
         ELSE /\ chainId' = ids
              /\ IF guard = "ok"
                 THEN /\ deployers' = [eth |-> getSigner(envVars.ethDeployerKey),
                                       arb |-> getSigner(envVars.arbDeployerKey),
                                       nova |-> getSigner(envVars.novaDeployerKey)]
                      /\ UNCHANGED << status, error >>
                 ELSE /\ status' = RejectionPropagates
                      /\ error' = [kind |-> "Error", detail |-> guard]
                      /\ UNCHANGED deployers
  /\ UNCHANGED << run, pc, deployedContracts, disk, msgStatus, distributor, resumedOk,
                  loopVars, inputVars, chainVars, started, envState, missingFiles,
                  envChecked, tokenRecipientsByPoints, mapped, logged, storeVars,
                  flowVars >>

NextEnv ==
  \/ CheckEnvVars
  \/ EnvCheckThrows
  \/ ConnectAndGuard

SpecEnv == InitEnv /\ [][NextEnv]_vars

-----------------------------------------------------------------------------
(* mapPointsToAmounts on its own: the function is applied to any recipients file *)

InitMap ==
  /\ ProcessStart
  /\ ProductionEnv
  /\ novaFlag = "true"
  /\ missingFiles = {}
  /\ envChecked = "none"
  /\ tokenRecipientsByPoints \in UNION {FilesOfLen(n) : n \in 0..MaxFileLen}
  /\ mapped = NotMapped
  /\ chainId = NoChainIds
  /\ deployers = NoDeployers
  /\ logged = NoLog
  /\ cache = EmptyRecord
  /\ spc = "load"
  /\ written = EmptyRecord

\* const { tokenRecipients, tokenAmounts } = mapPointsToAmounts(tokenRecipientsByPoints)
MapPoints ==
  /\ mapped = NotMapped
  /\ mapped' = << mapPointsToAmounts(tokenRecipientsByPoints) >>
  /\ UNCHANGED << status, run, pc, deployedContracts, disk, msgStatus, error, distributor,
                  resumedOk, loopVars, inputVars, chainVars, started, envState, missingFiles,
                  envChecked, tokenRecipientsByPoints, setupVars, storeVars,
                  flowVars >>

NextMap == MapPoints

SpecMap == InitMap /\ [][NextMap]_vars

-----------------------------------------------------------------------------
(* The progress file of scripts/providerSetup.ts on its own: a process loads the   *)
(* record, sets keys and saves the record after each; it can be ended at any point *)
(* and started again                                                               *)

\* keys of DeployProgressCache and values they are given
CacheKeys == {"l1Timelock", "l2TokenDistributor"}
CacheValues == {"0xA", "0xB", Undefined}

\* JSON.stringify(cache, null, 2): a key whose value is undefined is left out
JSONstringify(c) == [k \in {j \in DOMAIN c : c[j] # Undefined} |-> c[k]]

\* cache[k] in JavaScript
Get(c, k) == IF k \in DOMAIN c THEN c[k] ELSE Undefined

\* a load that reads the file without asking whether it exists
loadDeployedContractsUnguarded ==
  IF ~disk.exists THEN [threw |-> "ENOENT", value |-> EmptyRecord]
  ELSE IF ~disk.complete THEN [threw |-> "SyntaxError", value |-> EmptyRecord]
  ELSE [threw |-> "", value |-> disk.content]

\* loadDeployedContracts: {} without a file, else JSON.parse of its text, which
\* throws on text that is not a complete document
loadDeployedContracts ==
  IF ~disk.exists THEN [threw |-> "", value |-> EmptyRecord]
  ELSE IF ~disk.complete THEN [threw |-> "SyntaxError", value |-> EmptyRecord]
  ELSE [threw |-> "", value |-> disk.content]

\* the process starts by loading the record
LoadStore ==
  /\ Running /\ spc = "load"
  /\ LET r == loadDeployedContracts IN
       IF r.threw = ""
       THEN /\ cache' = r.value
            /\ spc' = "ready"
            /\ UNCHANGED << status, error >>
       ELSE /\ status' = RejectionPropagates
            /\ error' = [kind |-> r.threw, detail |-> "loadDeployedContracts"]
            /\ UNCHANGED << cache, spc >>
  /\ UNCHANGED << run, pc, deployedContracts, disk, msgStatus, distributor, resumedOk,
                  loopVars, inputVars, chainVars, started, envState, missingFiles,
                  envChecked, tokenRecipientsByPoints, mapped, setupVars, written, flowVars >>

\* a step sets a key of the record and calls updateDeployedContracts(cache):
\* writeFileSync opens the file
SetAndOpen ==
  /\ Running /\ spc = "ready"
  /\ \E k \in CacheKeys : \E v \in CacheValues :
       cache' = [j \in DOMAIN cache \cup {k} |-> IF j = k THEN v ELSE cache[j]]
  /\ OpenFile
  /\ spc' = "write"
  /\ UNCHANGED << status, run, pc, deployedContracts, msgStatus, error, distributor,
                  resumedOk, loopVars, inputVars, chainVars, started, envState,
                  missingFiles, envChecked, tokenRecipientsByPoints, mapped, setupVars,
                  written, flowVars >>

\* writeFileSync writes the text and closes the file
WriteStore ==
  /\ Running /\ spc = "write"
  /\ WriteFile(JSONstringify(cache))
  /\ written' = [k \in DOMAIN written \cup DOMAIN cache |-> Get(cache, k)]
  /\ spc' = "ready"
  /\ UNCHANGED << status, run, pc, deployedContracts, msgStatus, error, distributor,
                  resumedOk, loopVars, inputVars, chainVars, started, envState,
                  missingFiles, envChecked, tokenRecipientsByPoints, mapped, setupVars,
                  cache, flowVars >>

\* the process is terminated from outside
KillStore ==
  /\ Running
  /\ status' = "killed"
  /\ cache' = EmptyRecord
  /\ UNCHANGED << run, pc, deployedContracts, disk, msgStatus, error, distributor,
                  resumedOk, loopVars, inputVars, chainVars, started, envState,
                  missingFiles, envChecked, tokenRecipientsByPoints, mapped, setupVars,
                  spc, written, flowVars >>

\* the operator starts the script again
RestartStore ==
  /\ status \in {"failed", "killed"}
  /\ run < MaxRuns
  /\ status' = "running"
  /\ run' = run + 1
  /\ error' = NoneError
  /\ cache' = EmptyRecord
  /\ spc' = "load"
  /\ UNCHANGED << pc, deployedContracts, disk, msgStatus, distributor, resumedOk,
                  loopVars, inputVars, chainVars, started, envState, missingFiles,
                  envChecked, tokenRecipientsByPoints, mapped, setupVars, written, flowVars >>

InitStore ==
  /\ ProcessStart
  /\ ProductionEnv
  /\ novaFlag = "true"
  /\ missingFiles = {}
  /\ Unused

NextStore ==
  \/ LoadStore
  \/ SetAndOpen
  \/ WriteStore
  \/ KillStore
  \/ RestartStore

SpecStore == InitStore /\ [][NextStore]_vars

-----------------------------------------------------------------------------
(* Properties *)

InLoopBody == bpc \in {"getGasPrice", "gasGuard", "sleep", "slice", "wait"}
Entered == bpc \in {"getGasPrice", "gasGuard", "sleep", "slice", "wait", "returned"}

CeilDiv(n, b) == (n + b - 1) \div b

\* batch k as the claim describes it: recipients[k*B .. min((k+1)*B, N))
ClaimedBatch(k) ==
  [dist |-> distributor, index |-> k,
   recipients |-> SubSeq(tokenRecipients, k * BATCH_SIZE + 1,
                         Min((k + 1) * BATCH_SIZE, nRecipients)),
   amounts |-> SubSeq(tokenAmounts, k * BATCH_SIZE + 1,
                      Min((k + 1) * BATCH_SIZE, nRecipients))]

\* number of batches with index s <= k < ceil(N/B)
ClaimedCount(s) ==
  LET n == CeilDiv(nRecipients, BATCH_SIZE) IN IF n > s THEN n - s ELSE 0

\* C1: a run of the batch loop from startBatch submits the batches of index
\* startBatch <= k < ceil(N/B) in ascending order, batch k being
\* recipients[k*B .. min((k+1)*B, N)): at every moment the j-th batch it has
\* submitted is batch startBatch + j - 1 of that list, on return it has submitted
\* all of them, and no batch is empty.
ThmC1 ==
  Entered =>
    /\ Len(submitted) <= ClaimedCount(startBatch)
    /\ \A j \in 1..Len(submitted) : submitted[j] = ClaimedBatch(startBatch + j - 1)
    /\ bpc = "returned" => Len(submitted) = ClaimedCount(startBatch)
    /\ \A j \in 1..Len(submitted) : Len(submitted[j].recipients) > 0

\* N = 250 from batch 0: three batches, the last one is [200:250]
WitC1 ==
  /\ bpc = "returned" /\ nRecipients = 250 /\ startBatch = 0
  /\ Len(submitted) = 3
  /\ submitted[3].recipients = [j \in 1..50 |-> 200 + j]

RECURSIVE AllRecipients(_)
AllRecipients(bs) == IF bs = << >> THEN << >> ELSE Head(bs).recipients \o AllRecipients(Tail(bs))

RECURSIVE AllAmounts(_)
AllAmounts(bs) == IF bs = << >> THEN << >> ELSE Head(bs).amounts \o AllAmounts(Tail(bs))

\* C2: when the first run starts at batch 0 and every later run starts at the
\* number of batches confirmed before it (nothing being in flight), then on return
\* the distributor holds every recipient of the file exactly once, in file order,
\* each with its amount: the state an uninterrupted run from batch 0 leaves.
ThmC2 ==
  (bpc = "returned" /\ resumedOk) =>
    /\ AllRecipients(registered[distributor]) = tokenRecipients
    /\ AllAmounts(registered[distributor]) = tokenAmounts

\* a first run stopped after batch 0 was confirmed, the second run from batch 1 returned
WitC2 ==
  /\ bpc = "returned" /\ resumedOk /\ run = 2 /\ startBatch = 1
  /\ nRecipients = 250
  /\ Len(registered[distributor]) = 3

-----------------------------------------------------------------------------
(* The gas guard of lines 602-622 *)

GuardActive == Running /\ bpc \in {"gasGuard", "sleep"}

Last(h) == h[Len(h)]

\* C7: once the guard waits (its first sample was above the limit) it leaves the
\* wait only on a sample equal to BASE_GAS_PRICE: while it waits none of the later
\* samples was the base price, whatever their relation to the limit, and when it
\* has left the wait its last sample is the base price and no earlier one was.
ThmC7 ==
  GuardActive =>
    /\ bpc = "gasGuard" =>
          /\ samples[1] > GAS_PRICE_UNACCEPTABLE_LIMIT
          /\ \A k \in 1..Len(samples) : samples[k] # BASE_GAS_PRICE
    /\ (bpc = "sleep" /\ polls > 0) =>
          /\ samples[1] > GAS_PRICE_UNACCEPTABLE_LIMIT
          /\ Last(samples) = BASE_GAS_PRICE
          /\ \A k \in 1..(Len(samples) - 1) : samples[k] # BASE_GAS_PRICE
    /\ polls <= 2 => Len(samples) = polls + 1

\* samples 0.15, 0.13, 0.10 gwei: three samples, released by the third
WitC7 ==
  /\ Running /\ bpc = "sleep" /\ polls = 2
  /\ samples = << 150000000, 130000000, 100000000 >>

\* C8: the guard waits only if the first sample of the iteration is strictly above
\* the limit; with a first sample at or below the limit the loop goes on at once,
\* with one sample and no 30 second sleep, whether or not the sample is the base price.
ThmC8 ==
  GuardActive =>
    /\ samples[1] <= GAS_PRICE_UNACCEPTABLE_LIMIT =>
          bpc = "sleep" /\ polls = 0 /\ Len(samples) = 1
    /\ bpc = "gasGuard" => samples[1] > GAS_PRICE_UNACCEPTABLE_LIMIT

\* a first sample equal to the limit (and not the base price) passes at once
WitC8 ==
  /\ Running /\ bpc = "sleep" /\ polls = 0
  /\ samples = << GAS_PRICE_UNACCEPTABLE_LIMIT >>

\* C9: when a batch is sliced and submitted, a gas price has been sampled in the
\* same iteration (the binding is per iteration), the last such sample is at or
\* below the limit, and exactly one 1 second sleep separates it from the slice.
ThmC9 ==
  (Running /\ bpc \in {"slice", "wait"}) =>
    /\ gasPriceBestGuess \in GasPrices
    /\ gasPriceBestGuess <= GAS_PRICE_UNACCEPTABLE_LIMIT
    /\ delays = 1
    /\ BASE_GAS_PRICE < GAS_PRICE_UNACCEPTABLE_LIMIT

\* the second batch of a run is in flight, submitted after a sample of its own
WitC9 ==
  /\ Running /\ bpc = "wait" /\ Len(submitted) = 2
  /\ IsPending(SetRecipientsName, run)
  /\ gasPriceBestGuess = GAS_PRICE_UNACCEPTABLE_LIMIT

\* C10: the wait of the guard has no timeout and no cancellation: from a waiting
\* guard, a step that does not sample the base price leaves the guard waiting and
\* submits nothing, however many polls were made, unless the process is killed or
\* the sampling call itself rejects.
ThmC10 ==
  [][(Running /\ bpc = "gasGuard" /\ gasPriceBestGuess' # BASE_GAS_PRICE)
       => \/ bpc' = "gasGuard" /\ Running' /\ submitted' = submitted /\ i' = i
          \/ status' \in {"killed", "failed"}]_vars

\* the guard still waits after MaxPolls polls whose samples were all at or below the limit
WitC10 ==
  /\ Running /\ bpc = "gasGuard" /\ polls = MaxPolls
  /\ \A k \in 2..Len(samples) : samples[k] <= GAS_PRICE_UNACCEPTABLE_LIMIT

-----------------------------------------------------------------------------
(* Progress of the batch loop and of the deployment across runs *)

PendingBatches ==
  {k \in 1..Len(pending["arb"]) :
     pending["arb"][k].name = SetRecipientsName /\ pending["arb"][k].run = run}

CompleteRecord == [r \in 1..MaxRuns |-> [k \in StoredBefore(PcEnd) |-> r]]

CexC6 ==
  Running => \A k \in DOMAIN deployedContracts : ~IsPending(ProducerOf(k), run)

-----------------------------------------------------------------------------
(* The order of the steps *)

\* the process is at the first instruction of one of the thirteen functions
AtStepStart ==
  /\ Running /\ bpc = "none" /\ pc < PcEnd
  /\ IsStepStart(pc)
  /\ Cur.fn \in {StepOrder[k] : k \in 1..Len(StepOrder)}

\* function f has been called before the call that is starting now
StartedBefore(f) == \E k \in 1..(Len(started) - 1) : StepOrder[started[k]] = f

OwnPending == \E c \in Chains : \E k \in 1..Len(pending[c]) : pending[c][k].run = run

\* C12: when a function of the sequence starts, nothing the execution has submitted
\* before is still unconfirmed
CexC12 == AtStepStart => ~OwnPending

-----------------------------------------------------------------------------
(* The Nova toggle *)

\* the functions of deployGovernance that work on Nova only
NovaFunctions == {"deployNovaUpgradeExecutor", "deployTokenToNova"}

\* C13: when DEPLOY_GOVERNANCE_TO_NOVA is not "true" the execution calls none of the
\* Nova deployment functions and no transaction of it is waiting on the Nova chain
CexC13 ==
  ~isDeployingToNova =>
     /\ \A k \in 1..Len(started) : StepOrder[started[k]] \notin NovaFunctions
     /\ pending["nova"] = << >>

-----------------------------------------------------------------------------
(* The retryable messages of postDeploymentL1TokenTasks *)

Called(f) == \E k \in 1..Len(started) : StepOrder[started[k]] = f

Messages == DOMAIN NoMessages

\* C14: the two statuses are checked only after both messages have been waited for;
\* the functions after postDeploymentL1TokenTasks are called only when both messages
\* were REDEEMED; and when one was not, the execution has failed with an error that
\* holds the status observed for that message, and neither postDeploymentL2TokenTasks
\* nor deployAndInitTokenDistributor has been called
ThmC14 ==
  /\ AtOp("check") => \A x \in Messages : msgStatus[x] \in MessageStatuses
  /\ (status # "killed"
        /\ (Called("postDeploymentL2TokenTasks") \/ Called("deployAndInitTokenDistributor")))
       => \A x \in Messages : msgStatus[x] = "REDEEMED"
  /\ \A x \in Messages :
       error.kind = "NotRedeemed:" \o x =>
         /\ status = "failed"
         /\ error.detail = msgStatus[x]
         /\ error.detail \in MessageStatuses \ {"REDEEMED"}
         /\ StepOrder[Last(started)] = "postDeploymentL1TokenTasks"
         /\ ~Called("postDeploymentL2TokenTasks")
         /\ ~Called("deployAndInitTokenDistributor")

\* the second message was found with its funds deposited but not redeemed
WitC14 ==
  /\ status = "failed"
  /\ error = [kind |-> "NotRedeemed:setGatewaysTX", detail |-> "FUNDS_DEPOSITED_ON_L2"]
  /\ msgStatus["setTokenTx"] = "REDEEMED"

-----------------------------------------------------------------------------
(* Failure of a chain call *)

\* sequence a is an initial part of sequence b
IsPrefix(a, b) == Len(a) <= Len(b) /\ a = SubSeq(b, 1, Len(a))

\* queue b is queue a, or queue a without its oldest element
SameOrMined(a, b) == b = a \/ (a # << >> /\ b = Tail(a))

\* C15: the step in which a chain call throws ends the execution as failed, submits
\* nothing and changes neither the record nor what the chains hold; and as long as the
\* failed execution is not replaced by a new one, it stays failed at the same
\* instruction, no transaction is added to any chain's queue (queues only lose the
\* transactions that get mined), the record of addresses is unchanged and no batch a
\* distributor holds is removed
ThmC15 ==
  [][ /\ (error'.kind = "ChainCallError" /\ error' # error) =>
            /\ status = "running" /\ status' = "failed"
            /\ pending' = pending
            /\ registered' = registered
            /\ deployedContracts' = deployedContracts
      /\ (status = "failed" /\ run' = run) =>
            /\ status' = "failed"
            /\ pc' = pc /\ bpc' = bpc
            /\ \A c \in Chains : SameOrMined(pending[c], pending'[c])
            /\ deployedContracts' = deployedContracts
            /\ disk' = disk
            /\ \A d \in DOMAIN registered : IsPrefix(registered[d], registered'[d])
    ]_vars

\* a chain call threw after contracts had been deployed and recorded, while earlier
\* transactions of the execution were still unmined
WitC15 ==
  /\ status = "failed"
  /\ error.kind = "ChainCallError"
  /\ "l1GovernanceFactory" \in DOMAIN deployedContracts
  /\ pending["arb"] # << >>

-----------------------------------------------------------------------------
(* The outcome of the process *)

\* what the process reports to its caller.  main() is followed by
\* .then(() => console.log("Done.")).catch(console.error), lines 727-729: the handler
\* of catch logs the error and returns, so the promise chain is fulfilled in both
\* cases; process.exitCode is never set and process.exit is never called, and node
\* ends with exit code 0 when nothing is left to run.  A killed process ends with the
\* signal that killed it
ExitCode ==
  CASE status = "done" -> "0"
    [] status = "failed" -> "0"
    [] status = "killed" -> "SIGKILL"
    [] OTHER -> "none"

\* C16: an execution that failed ends with a failure outcome, never with the
\* outcome of a successful one
CexC16 == status = "failed" => ExitCode # "0"

-----------------------------------------------------------------------------
(* mapPointsToAmounts *)

\* the whole number of tokens the table of the claim gives for k points
TableAmount(k) ==
  CASE k = 3 -> 3000
    [] k = 4 -> 4500
    [] k = 5 -> 6000
    [] k = 6 -> 9000
    [] k = 7 -> 10500
    [] k \in 8..15 -> 12000

\* v is a JSON number that is one of the integers 3..15
InTable(v) == v.type = "number" /\ \E k \in 3..15 : v.tenths = 10 * k

\* the integer a value of the table stands for
IntegerOf(v) == CHOOSE k \in 3..15 : v.tenths = 10 * k

\* the positions of the file whose points are not in the table
Offending(file) == {j \in 1..Len(file) : ~InTable(file[j].points)}

\* C17: applied to a file whose points are all integers of 3..15 the function returns,
\* for every account, the amount of the table scaled by 10^18; applied to a file
\* with a value outside the table (an integer below 3 or above 15, a number that is
\* not an integer, a string, no value) it throws, returns no list, and the error
\* names the first account with such a value
ThmC17 ==
  mapped # NotMapped =>
    LET r == mapped[1]
        file == tokenRecipientsByPoints
    IN IF Offending(file) = {}
       THEN /\ r.ok
            /\ Len(r.tokenAmounts) = Len(file)
            /\ \A j \in 1..Len(file) :
                 r.tokenAmounts[j] = parseEther(TableAmount(IntegerOf(file[j].points)))
       ELSE /\ ~r.ok
            /\ r.tokenRecipients = << >> /\ r.tokenAmounts = << >>
            /\ r.account \in {file[j].account : j \in Offending(file)}
            /\ \A j \in Offending(file) : r.account <= file[j].account

\* two accounts with 7 and 15 points were mapped to 10500 and 12000 tokens
WitC17 ==
  /\ mapped # NotMapped
  /\ Len(tokenRecipientsByPoints) = 2
  /\ tokenRecipientsByPoints[1].points = Points(7)
  /\ tokenRecipientsByPoints[2].points = Points(15)
  /\ mapped[1].ok
  /\ mapped[1].tokenAmounts = << << 10500, 18 >>, << 12000, 18 >> >>

-----------------------------------------------------------------------------
(* Invalid points in the recipients file of the batch loop *)

\* a setRecipients transaction of the current invocation is waiting to be mined
OwnBatchPending == IsPending(SetRecipientsName, run)

\* C18: while the recipients file holds an account with invalid points, an invocation
\* of setClaimRecipients keeps no recipient and no amount, and submits no batch,
\* wherever in the file that account is; it ends as failed with the error that names
\* the account
ThmC18 ==
  /\ badAccount # 0 =>
       /\ tokenRecipients = << >> /\ tokenAmounts = << >>
       /\ submitted = << >>
       /\ ~OwnBatchPending
       /\ bpc \in {"start", "none"}
  /\ error.kind = "IncorrectPoints" =>
       /\ status = "failed"
       /\ badAccount # 0
       /\ error.detail = ToString(badAccount)

\* the invalid entry is the last account of a file of more than two batches
WitC18 ==
  /\ error.kind = "IncorrectPoints"
  /\ nRecipients > 2 * BATCH_SIZE
  /\ badAccount = nRecipients
  /\ submitted = << >>

-----------------------------------------------------------------------------
(* Alignment of recipients and amounts *)

\* the mapping has returned and the invocation has not submitted a batch yet: the
\* loop is about to take its first gas-price sample, or has ended without a batch
JustMapped ==
  /\ bpc \in {"getGasPrice", "returned"}
  /\ submitted = << >>

\* C19: when the mapping has returned, its two lists have the length of the file,
\* position j holding account j of the file and the amount of that account's
\* points; and a batch that has just been submitted passes, for its index k, the
\* recipients and the amounts of the same positions k*100+1 .. min((k+1)*100, N) of
\* these lists, so two slices of equal length
ThmC19 ==
  /\ JustMapped =>
       LET file == RecipientsFile(nRecipients, badAccount) IN
         /\ Len(tokenRecipients) = Len(file)
         /\ Len(tokenAmounts) = Len(file)
         /\ \A j \in 1..Len(file) :
              /\ tokenRecipients[j] = file[j].account
              /\ tokenAmounts[j] = parseEther(TableAmount(IntegerOf(file[j].points)))
  /\ bpc = "wait" =>
       LET b == Last(submitted)
           lo == b.index * BATCH_SIZE
           hi == Min(lo + BATCH_SIZE, nRecipients)
       IN /\ Len(b.recipients) = Len(b.amounts)
          /\ Len(b.recipients) = hi - lo
          /\ b.recipients = SubSeq(tokenRecipients, lo + 1, hi)
          /\ b.amounts = SubSeq(tokenAmounts, lo + 1, hi)

\* the remainder batch of a file of 250 accounts is waiting for its receipt
WitC19 ==
  /\ bpc = "wait" /\ nRecipients = 250
  /\ Last(submitted).index = 2
  /\ Len(Last(submitted).recipients) = 50
  /\ Len(Last(submitted).amounts) = 50

-----------------------------------------------------------------------------
(* The startup check of the environment *)

\* the variables the specification requires: the three endpoints, the three keys,
\* the deployer configuration, the three recipient files and the progress file
RequiredNames ==
  {"ETH_URL", "ARB_URL", "NOVA_URL", "ETH_KEY", "ARB_KEY", "NOVA_KEY",
   "DEPLOY_CONFIG_FILE_LOCATION", "VESTED_RECIPIENTS_FILE_LOCATION",
   "DAO_RECIPIENTS_FILE_LOCATION", "CLAIM_RECIPIENTS_FILE_LOCATION",
   "DEPLOYED_CONTRACTS_FILE_LOCATION"}

NotSet == {n \in DOMAIN env : env[n] = Undefined}

\* C20, for production mode: when DEPLOY_TO_LOCAL_ENVIRONMENT is "false", all files
\* exist and exactly one required variable is not set, checkEnvVars throws the error
\* that names that variable
CexC20 ==
  (envChecked # "none" /\ env["DEPLOY_TO_LOCAL_ENVIRONMENT"] = "false"
     /\ missingFiles = {}) =>
    \A n \in RequiredNames :
       NotSet = {n} => envChecked = "Missing " \o FieldOf[n] \o " in env vars"

-----------------------------------------------------------------------------
(* The wrong-network guard *)

Returned == deployers # NoDeployers

\* C21: signers are returned only when DEPLOY_TO_LOCAL_ENVIRONMENT is exactly "false"
\* and the chains reported 1, 42161 and 42170, or when it has another value and no
\* chain reported its own production id; a run that failed has returned no signer and
\* has submitted nothing
ThmC21 ==
  /\ Returned =>
       /\ \A c \in Chains : deployers[c] # "none"
       /\ IF localFlag = "false" /\ "DEPLOY_TO_LOCAL_ENVIRONMENT" \notin unset
          THEN chainId = [eth |-> 1, arb |-> 42161, nova |-> 42170]
          ELSE chainId["eth"] # 1 /\ chainId["arb"] # 42161 /\ chainId["nova"] # 42170
  /\ status = "failed" =>
       /\ ~Returned
       /\ \A c \in Chains : pending[c] = << >>

\* local mode: the L1 node reports the production id of another chain, which the
\* guard lets through
WitC21 ==
  /\ Returned
  /\ localFlag = "true"
  /\ chainId = [eth |-> 42161, arb |-> 1337, nova |-> 1337]

-----------------------------------------------------------------------------
(* The file and the end of the process *)

\* the text of the file is a complete JSON document
Parsable == disk.exists => disk.complete

\* C24 as stated: whenever the process is ended from outside, the file holds a
\* complete record, the previous one or the new one.
CexC24 == status = "killed" => Parsable

-----------------------------------------------------------------------------
(* The progress file of providerSetup.ts *)

\* C22: a load that finds no file gives the empty record and the process goes on
\* without an error: every step a process that has not loaded yet takes by itself
\* when there is no file ends with the empty record loaded and no error
ThmC22 ==
  [][(Running /\ spc = "load" /\ ~disk.exists /\ status' # "killed") =>
       /\ spc' = "ready"
       /\ cache' = EmptyRecord
       /\ status' = "running"
       /\ error' = NoneError]_vars

\* the first process has loaded and no file exists
WitC22 ==
  /\ Running /\ run = 1
  /\ spc = "ready"
  /\ ~disk.exists
  /\ cache = EmptyRecord

\* a process has loaded the record, or has failed doing so
LoadReturned == (Running /\ spc # "load") \/ status = "failed"

\* C23 as stated: a process started after the earlier one ended gets from load every
\* key that was written, with its latest value.
CexC23 ==
  (run > 1 /\ LoadReturned /\ spc # "write") =>
    /\ status # "failed"
    /\ \A k \in DOMAIN written : Get(cache, k) = written[k]

\* C24 as stated, for updateDeployedContracts: after the process was ended the file
\* is a complete document.
CexC24Store == status = "killed" => Parsable

-----------------------------------------------------------------------------
(* The order inside deployAndInitTokenDistributor *)

TransferOwnershipName == "tokenDistributor.transferOwnership"
AllocationName == "l2Token.transfer(tokenDistributor)"

\* the instruction that submits the transfer of ownership
OwnershipPc ==
  CHOOSE p \in 1..Len(Program) :
    Program[p].op = "send" /\ Program[p].name = TransferOwnershipName

\* this execution has submitted the transfer of ownership
OwnershipSubmitted == pc > OwnershipPc

\* this execution has submitted a batch
BatchSubmitted ==
  \/ registered[run] # << >>
  \/ \E k \in 1..Len(pending["arb"]) :
       pending["arb"][k].name = SetRecipientsName /\ pending["arb"][k].run = run

-----------------------------------------------------------------------------
(* The iteration of the terminal index *)

\* the loop is in the iteration of index numOfBatches and the file has no remainder
TerminalWithoutRemainder ==
  /\ Running /\ InLoopBody
  /\ i = nRecipients \div BATCH_SIZE
  /\ nRecipients % BATCH_SIZE = 0

\* C26 as stated: in the iteration of the terminal index of a file without remainder
\* no batch is submitted, the gas price is not sampled, the guard does not wait and
\* the one second delay is not applied.
CexC26 ==
  TerminalWithoutRemainder =>
    /\ bpc \notin {"gasGuard", "sleep", "wait"}
    /\ samples = << >>
    /\ polls = 0
    /\ delays = 0

-----------------------------------------------------------------------------
(* One batch in flight *)

\* the setRecipients transactions that are submitted and not mined
BatchesInFlight ==
  {k \in 1..Len(pending["arb"]) : pending["arb"][k].name = SetRecipientsName}

\* the batches of this execution that are submitted, mined or not
BatchesSent ==
  Len(registered[run])
    + Cardinality({k \in BatchesInFlight : pending["arb"][k].run = run})

\* C27: at most one setRecipients transaction is unmined at any time; a batch is
\* submitted only by a running process, only when no batch is in flight, and it is
\* the batch after the last confirmed one; once an execution has failed or was ended
\* it submits no further batch
ThmC27 ==
  [][/\ Cardinality(BatchesInFlight') <= 1
     /\ (run' = run /\ BatchesSent' > BatchesSent) =>
          /\ status = "running" /\ bpc = "slice"
          /\ BatchesInFlight = {}
          /\ BatchesSent' = BatchesSent + 1
          /\ Last(pending'["arb"]).payload.index = startBatch + Len(registered[run])
     /\ (run' = run /\ status \in {"failed", "killed"}) =>
          /\ status' = status
          /\ BatchesSent' = BatchesSent]_vars

\* the second batch is in flight and the first one is mined
WitC27 ==
  /\ Running /\ bpc = "wait"
  /\ Cardinality(BatchesInFlight) = 1
  /\ Len(registered[run]) = 1
  /\ Last(pending["arb"]).payload.index = 1
  /\ startBatch = 0

-----------------------------------------------------------------------------
(* The one second sleep before a batch *)

\* C28: the slice of an iteration is reached only through the one second sleep, which
\* is entered both from an acceptable first sample and from a guard that has seen
\* the base price; a batch is submitted only after exactly one sleep of its own
\* iteration, and the count starts again once its receipt is there
ThmC28 ==
  [][/\ (bpc' = "slice" /\ bpc # "slice") =>
          bpc = "sleep" /\ delays = 0 /\ delays' = 1
     /\ (bpc \in {"getGasPrice", "gasGuard"} /\ Running' /\ bpc' # bpc) =>
          bpc' \in {"gasGuard", "sleep"} /\ delays' = 0
     /\ (run' = run /\ BatchesSent' > BatchesSent) => bpc = "slice" /\ delays = 1
     /\ (bpc = "wait" /\ Running' /\ bpc' # bpc) => delays' = 0]_vars

\* the second batch is in flight: it was submitted after a sleep of its own, at the
\* base price
WitC28 ==
  /\ Running /\ bpc = "wait" /\ Len(submitted) = 2
  /\ IsPending(SetRecipientsName, run)
  /\ delays = 1
  /\ gasPriceBestGuess = BASE_GAS_PRICE

-----------------------------------------------------------------------------
(* Termination *)

Ended == status \in {"done", "failed", "killed"}

\* C29: when every call returns, every guard wait sees the base price and the
\* messages reach a status, an execution that runs eventually ends: it has run the
\* thirteen steps, or it was aborted by an error (or ended from outside)
ThmC29 == (status = "running") ~> Ended

\* an execution that had two batches to set ran the thirteen steps to the end
WitC29 ==
  /\ status = "done"
  /\ Len(started) = Len(StepOrder)
  /\ nRecipients = BATCH_SIZE + 50

-----------------------------------------------------------------------------
(* Addresses passed between the governance steps *)

\* for each of the three calls, the instruction that makes it
CallPc ==
  [n \in GovernanceCalls |->
     CHOOSE p \in 1..Len(Program) : Program[p].op = "send" /\ Program[p].name = n]

\* this execution has made the call named n
Made(n) == pc > CallPc[n]

\* per execution, the addresses its calls are to pass on: the executor logic it
\* deployed and those of the Deployed events of its deployStep1 and deployStep2
Created ==
  [r \in 1..MaxRuns |->
     [logic |-> ContractAddress("l1UpgradeExecutorLogic", r),
      coreTimelock |-> L2DeployedEvent(r).coreTimelock,
      timelock |-> L1DeployedEvent(r).timelock]]

\* C30: the calls of the governance steps pass addresses of this execution:
\* deployStep2 gets the executor logic deployed by deployL1LogicContracts and the
\* coreTimelock of the Deployed event of deployStep1; deployStep3 and the
\* initialisation of the Nova executor get the timelock of the Deployed event of
\* deployStep2 plus the alias offset modulo 2^160, which is never that timelock
\* itself; a call that was not made has passed nothing
ThmC30 ==
  /\ \A n \in GovernanceCalls : ~Made(n) => calls[n] = << >>
  /\ Made("deployStep2") =>
       /\ calls["deployStep2"][1] = Created[run].logic
       /\ calls["deployStep2"][2] = Created[run].coreTimelock
  /\ \A n \in {"deployStep3", "novaUpgradeExecutor.initialize"} :
       Made(n) =>
         LET timelock == Created[run].timelock
             passed == Last(calls[n]) IN
           /\ passed # timelock
           /\ Len(passed) = AddressLimbs
           /\ \A k \in 1..AddressLimbs : passed[k] \in 0..(LimbBase - 1)
           /\ passed[AddressLimbs] = (timelock[AddressLimbs] + 4369) % LimbBase
           /\ passed[1] = (timelock[1] + 4369
                            + (IF timelock[AddressLimbs] + 4369 >= LimbBase
                                  /\ \A k \in 2..(AddressLimbs - 1) : timelock[k] = LimbBase - 1
                               THEN 1 ELSE 0)) % LimbBase

\* the second execution has initialised the Nova executor: the timelock of its event
\* is so high that the alias wrapped around
WitC30 ==
  /\ Running /\ run = 2
  /\ Made("novaUpgradeExecutor.initialize")
  /\ calls["deployStep3"][1][1] < L1DeployedEvent(run).timelock[1]

-----------------------------------------------------------------------------
(* A receipt without the Deployed event *)

\* the names of the transactions submitted by the instructions before p
SubmittedBefore ==
  [p \in 1..PcEnd |->
     {Program[q].name : q \in {j \in 1..(p - 1) : Program[j].op \in {"deploy", "send"}}}]

\* the Deployed event was not found in a receipt
EventMissing == error.kind = "TypeError"

\* C31: when the receipt of deployStep1 or deployStep2 holds no Deployed event the
\* execution has failed at the line that reads the event of that mined transaction:
\* the record holds the addresses of the steps before and none of this step, the
\* result of the step is not assigned, this step is the last one that was started,
\* and every transaction of the execution was submitted before that line
ThmC31 ==
  EventMissing =>
    /\ status = "failed"
    /\ pc < PcEnd /\ Program[pc].op = "event"
    /\ error.detail = Program[pc].name
    /\ error.detail \in {"deployStep1", "deployStep2"}
    /\ ~IsPending(error.detail, run)
    /\ KeysOfStep(StepAt(pc)) \cap DOMAIN deployedContracts = {}
    /\ DOMAIN deployedContracts = StoredBefore(pc)
    /\ error.detail = "deployStep1" => l2DeployResult = NoL2Result
    /\ l1DeployResult = NoL1Result
    /\ Last(started) = StepAt(pc)
    /\ \A n \in GovernanceCalls \ {"deployStep2"} : calls[n] = << >>
    /\ error.detail = "deployStep1" => calls["deployStep2"] = << >>
    /\ \A c \in Chains : \A k \in 1..Len(pending[c]) :
         pending[c][k].run = run => pending[c][k].name \in SubmittedBefore[pc]

\* the receipt of deployStep2 has no Deployed event: the addresses of the L2 governance
\* are in the record, those of the L1 governance are not
WitC31 ==
  /\ EventMissing /\ status = "failed"
  /\ error.detail = "deployStep2"
  /\ "l2CoreTimelock" \in DOMAIN deployedContracts
  /\ "l1Timelock" \notin DOMAIN deployedContracts

-----------------------------------------------------------------------------
(* The environment summary and the private keys *)

\* envVars of the configuration that differs from this one in the keys only: each
\* key is ks[n], a value or not set
envVarsKeyed(ks) ==
  [envVars EXCEPT !.ethDeployerKey = ks["ETH_KEY"],
                  !.arbDeployerKey = ks["ARB_KEY"],
                  !.novaDeployerKey = ks["NOVA_KEY"]]

\* the keys of a configuration: each one a value or not set
KeyChoices == [KeyNames -> KeyValues \cup {Undefined}]

\* C32: the record getDeployersAndConfig has printed shows "******" in its three key
\* fields and the other fields of envVars as they are, and it is the record printed
\* by every configuration that differs from this one in ETH_KEY, ARB_KEY or NOVA_KEY
\* only and gets as far as the print; with the three keys set to other values the
\* configuration gets as far as this one. Nothing is printed unless checkEnvVars
\* has returned.
ThmC32 ==
  /\ logged # NoLog <=> envChecked = "ok"
  /\ logged # NoLog =>
       /\ \A f \in KeyFields : logged[f] = "******"
       /\ \A f \in DOMAIN envVars \ KeyFields : logged[f] = envVars[f]
       /\ \A ks \in KeyChoices :
            checkEnvVars(envVarsKeyed(ks), missingFiles) = "ok"
              => EnvironmentSummary(envVarsKeyed(ks)) = logged
  /\ (envChecked # "none" /\ unset \cap KeyNames = {}) =>
       \A ks \in [KeyNames -> KeyValues] :
          checkEnvVars(envVarsKeyed(ks), missingFiles) = envChecked

\* a record was printed by a process whose three keys are not all the same value
WitC32 ==
  /\ logged # NoLog
  /\ unset = {}
  /\ keys["ETH_KEY"] # keys["ARB_KEY"]
  /\ keys["ARB_KEY"] = keys["NOVA_KEY"]
  /\ logged.ethDeployerKey = logged.arbDeployerKey

====
